---------------------------- MODULE Spec2Model ----------------------------
(***************************************************************************)
(* A model of the chart core of openrhythm: the Malody chart parser with   *)
(* its beat -> time calculator (chart/parser.rs, chart/model.rs) and the   *)
(* library index manager (chart/manager.rs).                               *)
(*                                                                         *)
(* f64 values are modelled as exact rationals [n, d] in lowest terms, so   *)
(* every comparison below is the comparison of the real numbers the code   *)
(* approximates.  Option<T> is a sequence of length 0 (None) or 1 (Some).  *)
(* Strings that the code inspects character by character are sequences of  *)
(* one-character strings.                                                  *)
(***************************************************************************)
EXTENDS Integers, Sequences, FiniteSets, TLC

VARIABLES
    index,      \* ChartManager.index: the in-memory ChartIndex.charts map
    disk,       \* chart_index.json: whether it exists, and its chart map
    fs,         \* the file system: path -> file content
    lock,       \* the RwLock's writer: a thread, or NoThread
    poisoned,   \* the RwLock's poison flag
    pc,         \* per thread: where it is inside its current call
    call,       \* per thread: the call in progress or last made
    ret,        \* per thread: what the last finished call returned
    todo,       \* per thread: walkdir entries not yet visited
    imported,   \* per thread: import_mcz_file's imported_charts
    clock,      \* calls started so far; also the reading of Utc::now()
    input,      \* the argument a pure function is applied to
    output,     \* its result
    phase       \* which pure function that is, and whether it has run

vars == <<index, disk, fs, lock, poisoned, pc, call, ret, todo, imported,
          clock, input, output, phase>>

mgrVars == <<index, disk, fs, lock, poisoned, pc, call, ret, todo, imported,
             clock>>
funVars == <<input, output, phase>>

-----------------------------------------------------------------------------
(* Option<T> *)

None == <<>>
Some(x) == <<x>>
IsSome(o) == Len(o) = 1
Unwrap(o) == o[1]

-----------------------------------------------------------------------------
(* Evaluation order.  Only({e(v) : v \in {a}}) is e(a) with a evaluated    *)
(* once, the way the code evaluates a `let`.                               *)

Only(S) == CHOOSE x \in S : TRUE

-----------------------------------------------------------------------------
(* f64 as exact rationals *)

Abs(x) == IF x < 0 THEN -x ELSE x

RECURSIVE Gcd(_, _)
Gcd(a, b) ==
    IF b = 0 THEN a ELSE Only({Gcd(x, y) : x \in {b}, y \in {a % b}})

\* n/d in lowest terms, d > 0
Rat(n, d) ==
    Only({Only({[n |-> (IF dd < 0 THEN -nn ELSE nn) \div g, d |-> Abs(dd) \div g] :
                  g \in {Gcd(Abs(nn), Abs(dd))}}) :
            nn \in {n}, dd \in {d}})

R(k) == [n |-> k, d |-> 1]
RAdd(a, b) == Only({Rat(x.n * y.d + y.n * x.d, x.d * y.d) : x \in {a}, y \in {b}})
RSub(a, b) == Only({Rat(x.n * y.d - y.n * x.d, x.d * y.d) : x \in {a}, y \in {b}})
RMul(a, b) == Only({Rat(x.n * y.n, x.d * y.d) : x \in {a}, y \in {b}})
RDiv(a, b) == Only({Rat(x.n * y.d, x.d * y.n) : x \in {a}, y \in {b}})
RLe(a, b) == \E x \in {a}, y \in {b} : x.n * y.d <= y.n * x.d
RLt(a, b) == \E x \in {a}, y \in {b} : x.n * y.d < y.n * x.d
RMax(a, b) == Only({IF RLe(x, y) THEN y ELSE x : x \in {a}, y \in {b}})

-----------------------------------------------------------------------------
(* Strings as character sequences *)

UpperChars == <<"A", "B", "C", "D", "E", "F", "G", "H", "I", "J", "K", "L", "M",
                "N", "O", "P", "Q", "R", "S", "T", "U", "V", "W", "X", "Y", "Z">>
LowerChars == <<"a", "b", "c", "d", "e", "f", "g", "h", "i", "j", "k", "l", "m",
                "n", "o", "p", "q", "r", "s", "t", "u", "v", "w", "x", "y", "z">>

\* char::to_lowercase on the ASCII letters
LowerChar(c) ==
    IF \E i \in 1..Len(UpperChars) : UpperChars[i] = c
    THEN LowerChars[CHOOSE i \in 1..Len(UpperChars) : UpperChars[i] = c]
    ELSE c

\* str::to_lowercase
to_lowercase(s) == [i \in 1..Len(s) |-> LowerChar(s[i])]

\* str::contains(pattern)
contains(s, p) ==
    \E k \in 0..(Len(s) - Len(p)) : SubSeq(s, k + 1, k + Len(p)) = p

-----------------------------------------------------------------------------
(* Result<T> and CoreError (error.rs) *)

Ok(v) == [ok |-> TRUE, val |-> v]
Err(kind) == [ok |-> FALSE, err |-> kind]

-----------------------------------------------------------------------------
(* chart/model.rs and the timeline calculator of chart/parser.rs *)

\* measure + numerator / denominator, as f64
BeatValue(beat) == RAdd(R(beat[1]), Rat(beat[2], beat[3]))

\* 60.0 / bpm
SecondsPerBeat(bpm) == RDiv(R(60), bpm)

\* The loop body without `current_bpm = change.bpm`
WalkStepNoTempoUpdate(st, change_beats, change) ==
    [time |-> RAdd(st.time,
                   RMul(RSub(change_beats, st.current_beat),
                        SecondsPerBeat(st.current_bpm))),
     current_beat |-> change_beats,
     current_bpm |-> st.current_bpm]

\* One iteration of the loop of beat_to_time_with_bpm_changes, for a
\* breakpoint at or before the target
WalkStep(st, change_beats, change) ==
    [time |-> RAdd(st.time,
                   RMul(RSub(change_beats, st.current_beat),
                        SecondsPerBeat(st.current_bpm))),
     current_beat |-> change_beats,
     current_bpm |-> change.bpm]

\* The loop: breakpoints in the order supplied, up to the first whose beat
\* exceeds the target.
RECURSIVE WalkChanges(_, _, _, _)
WalkChanges(bpm_changes, i, target_beats, st) ==
    IF i > Len(bpm_changes) THEN st
    ELSE Only({IF RLe(change_beats, target_beats)
               THEN Only({WalkChanges(bpm_changes, i + 1, target_beats, next) :
                            next \in {WalkStep(st, change_beats, bpm_changes[i])}})
               ELSE st :
                 change_beats \in {BeatValue(bpm_changes[i].beat)}})

beat_to_time_with_bpm_changes(bpm_changes, target_beat, default_bpm) ==
    Only({IF bpm_changes = <<>>
          THEN RMul(target_beats, SecondsPerBeat(default_bpm))
          ELSE Only({RAdd(st.time,
                          RMul(RSub(target_beats, st.current_beat),
                               SecondsPerBeat(st.current_bpm))) :
                       st \in {WalkChanges(bpm_changes, 1, target_beats,
                                           [time |-> R(0), current_beat |-> R(0),
                                            current_bpm |-> default_bpm])}}) :
            target_beats \in {BeatValue(target_beat)}})

\* Chart::beat_to_time: the loop over self.bpm_changes; the ELSE branch is
\* the break.
RECURSIVE ChartWalk(_, _, _, _)
ChartWalk(bpm_changes, i, total_beats, st) ==
    IF i > Len(bpm_changes) THEN st
    ELSE Only({
           IF RLe(RAdd(st.current_beat, beats_until_change), total_beats)
           THEN Only({ChartWalk(bpm_changes, i + 1, total_beats, next) :
                        next \in {[time |->
                                       RAdd(st.time,
                                            RMul(beats_until_change,
                                                 SecondsPerBeat(st.current_bpm))),
                                   current_beat |->
                                       RAdd(st.current_beat, beats_until_change),
                                   current_bpm |-> bpm_changes[i].bpm]}})
           ELSE [time |-> RAdd(st.time,
                               RMul(RSub(total_beats, st.current_beat),
                                    SecondsPerBeat(st.current_bpm))),
                 current_beat |-> total_beats,
                 current_bpm |-> st.current_bpm] :
             beats_until_change \in
                 {RSub(BeatValue(bpm_changes[i].beat), st.current_beat)}})

Chart_beat_to_time(chart, beat) ==
    Only({IF RLt(st.current_beat, BeatValue(beat))
          THEN RAdd(st.time, RMul(RSub(BeatValue(beat), st.current_beat),
                                  SecondsPerBeat(st.current_bpm)))
          ELSE st.time :
            st \in {ChartWalk(chart.bpm_changes, 1, BeatValue(beat),
                              [time |-> R(0), current_beat |-> R(0),
                               current_bpm |-> chart.metadata.bpm])}})

\* Chart::duration
RECURSIVE DurationFold(_, _, _)
DurationFold(notes, i, max) ==
    IF i > Len(notes) THEN max
    ELSE Only({DurationFold(notes, i + 1, next) :
                 next \in {RMax(max, IF IsSome(notes[i].end_time)
                                     THEN Unwrap(notes[i].end_time)
                                     ELSE notes[i].start_time)}})

duration(chart) == DurationFold(chart.notes, 1, R(0))

\* slice::sort_by(|a, b| a[key].partial_cmp(&b[key]).unwrap()): stable
RECURSIVE SortedInsert(_, _, _)
SortedInsert(sorted, x, key) ==
    IF sorted = <<>> THEN <<x>>
    ELSE IF RLe(sorted[Len(sorted)][key], x[key]) THEN Append(sorted, x)
    ELSE Only({Append(SortedInsert(front, x, key), sorted[Len(sorted)]) :
                 front \in {SubSeq(sorted, 1, Len(sorted) - 1)}})

RECURSIVE SortFrom(_, _, _, _)
SortFrom(s, i, key, acc) ==
    IF i > Len(s) THEN acc
    ELSE Only({SortFrom(s, i + 1, key, next) :
                 next \in {SortedInsert(acc, s[i], key)}})

\* The list as it was pushed, without the sort
as_pushed(s, key) == s

sort_by(s, key) == Only({SortFrom(v, 1, key, <<>>) : v \in {s}})

-----------------------------------------------------------------------------
(* chart/parser.rs: MalodyParser *)

\* NoteType
Tap == "Tap"
Hold == "Hold"
Slide == "Slide"
Chain == "Chain"

\* match malody_note.note_type { Some(1) => Hold, ... , _ => Tap }
NoteTypeOf(note_type) ==
    IF note_type = Some(1) THEN Hold
    ELSE IF note_type = Some(2) THEN Slide
    ELSE IF note_type = Some(3) THEN Chain
    ELSE Tap

\* f64 as u64 (saturating at 0), for the rationals used as effect values
AsU64(v) == IF v.n < 0 THEN 0 ELSE v.n \div v.d

\* One iteration of the walk over malody_chart.time: st = [bpm, bpm_changes]
TimeStep(st, time_point) ==
    Only({[st EXCEPT !.bpm = bpm,
                     !.bpm_changes =
                         Append(@, [time |-> beat_to_time_with_bpm_changes(
                                                 st.bpm_changes,
                                                 time_point.beat, bpm),
                                    bpm |-> time_point.bpm,
                                    beat |-> time_point.beat])] :
            bpm \in {IF st.bpm_changes = <<>> THEN time_point.bpm ELSE st.bpm}})

\* The walk over malody_chart.time taken from the last entry to the first
RECURSIVE TimeLoopBackwards(_, _, _)
TimeLoopBackwards(time, i, st) ==
    IF i > Len(time) THEN st
    ELSE Only({TimeLoopBackwards(time, i + 1, next) :
                 next \in {TimeStep(st, time[Len(time) + 1 - i])}})

RECURSIVE TimeLoop(_, _, _)
TimeLoop(time, i, st) ==
    IF i > Len(time) THEN st
    ELSE Only({TimeLoop(time, i + 1, next) : next \in {TimeStep(st, time[i])}})

\* The walk over malody_chart.effect with the type-1 entries kept as generic
\* events instead of tempo changes
EffectStepTempoAsEvent(st, e) ==
    Only({IF e.effect_type = 2
          THEN [st EXCEPT !.time_signatures =
                   Append(@, [time |-> t,
                              numerator |-> AsU64(e.value) % 256,
                              denominator |-> (AsU64(e.value) \div 256) % 256,
                              beat |-> e.beat])]
          ELSE IF e.effect_type = 3
          THEN [st EXCEPT !.speed_changes =
                   Append(@, [time |-> t, speed |-> e.value, beat |-> e.beat])]
          ELSE [st EXCEPT !.effects =
                   Append(@, [time |-> t,
                              event_type |-> <<"malody_effect_", e.effect_type>>,
                              data |-> e.value])] :
            t \in {beat_to_time_with_bpm_changes(st.bpm_changes, e.beat, st.bpm)}})

\* One iteration of the walk over malody_chart.effect:
\* st = [bpm, bpm_changes, time_signatures, speed_changes, effects]
EffectStep(st, e) ==
    Only({IF e.effect_type = 1
          THEN [st EXCEPT !.bpm_changes =
                   Append(@, [time |-> t, bpm |-> e.value, beat |-> e.beat])]
          ELSE IF e.effect_type = 2
          THEN [st EXCEPT !.time_signatures =
                   Append(@, [time |-> t,
                              numerator |-> AsU64(e.value) % 256,
                              denominator |-> (AsU64(e.value) \div 256) % 256,
                              beat |-> e.beat])]
          ELSE IF e.effect_type = 3
          THEN [st EXCEPT !.speed_changes =
                   Append(@, [time |-> t, speed |-> e.value, beat |-> e.beat])]
          ELSE [st EXCEPT !.effects =
                   Append(@, [time |-> t,
                              event_type |-> <<"malody_effect_", e.effect_type>>,
                              data |-> e.value])] :
            t \in {beat_to_time_with_bpm_changes(st.bpm_changes, e.beat, st.bpm)}})

RECURSIVE EffectLoop(_, _, _)
EffectLoop(effect, i, st) ==
    IF i > Len(effect) THEN st
    ELSE Only({EffectLoop(effect, i + 1, next) :
                 next \in {EffectStep(st, effect[i])}})

\* The walk over malody_chart.note taking an audio reference at any
\* position, not at position 0 only
NoteStepAnyPosition(st, malody_note, i) ==
    IF /\ IsSome(malody_note.sound)
       /\ NoteTypeOf(malody_note.note_type) = Tap
       /\ malody_note.column = 0
    THEN [st EXCEPT !.audio = malody_note.sound,
                    !.audio_offset = IF IsSome(malody_note.offset)
                                     THEN Unwrap(malody_note.offset) ELSE 0]
    ELSE [st EXCEPT
             !.notes =
                 Append(@, [id |-> i,
                            start_time |->
                                beat_to_time_with_bpm_changes(
                                    st.bpm_changes, malody_note.beat, st.bpm),
                            end_time |->
                                IF IsSome(malody_note.end)
                                THEN Some(beat_to_time_with_bpm_changes(
                                              st.bpm_changes,
                                              Unwrap(malody_note.end), st.bpm))
                                ELSE None,
                            column |-> malody_note.column,
                            note_type |-> NoteTypeOf(malody_note.note_type),
                            beat |-> malody_note.beat,
                            sound |-> malody_note.sound,
                            volume |-> malody_note.vol]),
             !.audio_files =
                 IF IsSome(malody_note.sound)
                 THEN @ \cup {<<i, Unwrap(malody_note.sound)>>}
                 ELSE @]

\* One iteration of the walk over malody_chart.note; i is enumerate()'s
\* index: st = [bpm, bpm_changes, notes, audio_files, audio, audio_offset]
NoteStep(st, malody_note, i) ==
    IF /\ IsSome(malody_note.sound)
       /\ NoteTypeOf(malody_note.note_type) = Tap
       /\ malody_note.column = 0
       /\ i = 0
    THEN [st EXCEPT !.audio = malody_note.sound,
                    !.audio_offset = IF IsSome(malody_note.offset)
                                     THEN Unwrap(malody_note.offset) ELSE 0]
    ELSE [st EXCEPT
             !.notes =
                 Append(@, [id |-> i,
                            start_time |->
                                beat_to_time_with_bpm_changes(
                                    st.bpm_changes, malody_note.beat, st.bpm),
                            end_time |->
                                IF IsSome(malody_note.end)
                                THEN Some(beat_to_time_with_bpm_changes(
                                              st.bpm_changes,
                                              Unwrap(malody_note.end), st.bpm))
                                ELSE None,
                            column |-> malody_note.column,
                            note_type |-> NoteTypeOf(malody_note.note_type),
                            beat |-> malody_note.beat,
                            sound |-> malody_note.sound,
                            volume |-> malody_note.vol]),
             !.audio_files =
                 IF IsSome(malody_note.sound)
                 THEN @ \cup {<<i, Unwrap(malody_note.sound)>>}
                 ELSE @]

RECURSIVE NoteLoop(_, _, _)
NoteLoop(note, i, st) ==
    IF i > Len(note) THEN st
    ELSE Only({NoteLoop(note, i + 1, next) :
                 next \in {NoteStep(st, note[i], i - 1)}})

\* The default base tempo of a chart without tempo entries
DefaultBpm == 120
\* The default column count of a chart without mode_ext
DefaultColumns == 4

\* The Chart built from the three walks, sorted by time
BuildChart(meta, s2, s3) ==
    [metadata |->
         [title |-> meta.title, artist |-> meta.artist,
          creator |-> meta.creator, version |-> meta.version,
          background |-> meta.background,
          audio |-> s3.audio, audio_offset |-> s3.audio_offset,
          bpm |-> s2.bpm, mode |-> meta.mode,
          columns |-> IF IsSome(meta.column) THEN Unwrap(meta.column)
                      ELSE DefaultColumns],
     bpm_changes |-> sort_by(s2.bpm_changes, "time"),
     time_signatures |-> sort_by(s2.time_signatures, "time"),
     speed_changes |-> sort_by(s2.speed_changes, "time"),
     notes |-> sort_by(s3.notes, "start_time"),
     effects |-> sort_by(s2.effects, "time"),
     audio_files |-> s3.audio_files]

convert_to_chart(malody_chart) ==
    Only({Only({Only({BuildChart(malody_chart.meta, s2, s3) :
                        s3 \in {NoteLoop(malody_chart.note, 1,
                                         [bpm |-> s2.bpm,
                                          bpm_changes |-> s2.bpm_changes,
                                          notes |-> <<>>, audio_files |-> {},
                                          audio |-> None, audio_offset |-> 0])}}) :
                  s2 \in {EffectLoop(malody_chart.effect, 1,
                                     [bpm |-> s1.bpm,
                                      bpm_changes |-> s1.bpm_changes,
                                      time_signatures |-> <<>>,
                                      speed_changes |-> <<>>,
                                      effects |-> <<>>])}}) :
            s1 \in {TimeLoop(malody_chart.time, 1,
                             [bpm |-> R(DefaultBpm), bpm_changes |-> <<>>])}})

\* serde_json::from_str::<MalodyChart>: a file that is no JSON document of
\* the schema, or a note entry without the required `column`, is an error.
parse_from_str(content) ==
    IF content.kind # "json" THEN Err("Parse")
    ELSE IF \E i \in 1..Len(content.doc.note) :
                ~IsSome(content.doc.note[i].column)
    THEN Err("Parse")
    ELSE Only({Ok(convert_to_chart(typed)) :
                 typed \in {[content.doc EXCEPT !.note =
                               [i \in 1..Len(@) |->
                                   [@[i] EXCEPT !.column = Unwrap(@)]]]}})

\* std::fs::read_to_string, then parse_from_str
parse_from_file(files, path) ==
    IF path \notin DOMAIN files THEN Err("Io")
    ELSE parse_from_str(files[path])

-----------------------------------------------------------------------------
(* chart/manager.rs: the pure helpers of ChartManager *)

\* The separator of the identity string
Underscore == <<"_">>

\* format!("{}_{}_{}_{}", title, artist, creator, version)
IdStringNoVersion(metadata) ==
    metadata.title \o Underscore \o metadata.artist \o Underscore
        \o metadata.creator \o Underscore

IdString(metadata) ==
    metadata.title \o Underscore \o metadata.artist \o Underscore
        \o metadata.creator \o Underscore \o metadata.version

\* hex::encode(&Sha256::digest(s)[..8]): SHA-256 is taken as an ideal hash,
\* one that maps different strings to different digests.
Sha256Hex8(s) == <<"sha256/8", s>>

generate_chart_id(chart) == Sha256Hex8(IdString(chart.metadata))

HoldCount(notes) == Cardinality({i \in 1..Len(notes) : notes[i].note_type = Hold})

\* base_level + hold_bonus >= y, for the reals base_level = sqrt(x) * 20.0
RawLevelAtLeast(x, hold_bonus, y) ==
    \E r \in {RSub(y, hold_bonus)} :
        r.n <= 0 \/ RLe(RMul(r, r), RMul(R(400), x))

\* f64::round (half away from zero) followed by `as u8`, of the value v given
\* by its comparisons AtLeast(y) <=> v >= y
LevelRound(x, hold_bonus, clamped) ==
    LET AtLeast(y) ==
            IF clamped
            THEN RLe(y, R(1)) \/ (RLe(y, R(30)) /\ RawLevelAtLeast(x, hold_bonus, y))
            ELSE RawLevelAtLeast(x, hold_bonus, y)
    IN  CHOOSE k \in 0..255 :
            /\ k = 0 \/ AtLeast(Rat(2 * k - 1, 2))
            /\ k = 255 \/ ~AtLeast(Rat(2 * k + 1, 2))

\* density = note_count / duration.max(1.0)
Density(note_count, dur) == RDiv(R(note_count), RMax(dur, R(1)))

\* (hold_notes / note_count.max(1)) * 5.0
HoldBonus(note_count, hold_notes) ==
    RMul(RDiv(R(hold_notes), RMax(R(note_count), R(1))), R(5))

\* The formula without the clamp to [1, 30]
LevelOfUnclamped(note_count, dur, avg_bpm, hold_notes) ==
    Only({LevelRound(x, hold_bonus, FALSE) :
            x \in {RDiv(RMul(Density(note_count, dur), avg_bpm), R(5000))},
            hold_bonus \in {HoldBonus(note_count, hold_notes)}})

\* The formula of calculate_difficulty_level on the four numbers it reads
LevelOf(note_count, dur, avg_bpm, hold_notes) ==
    Only({LevelRound(x, hold_bonus, TRUE) :
            x \in {RDiv(RMul(Density(note_count, dur), avg_bpm), R(5000))},
            hold_bonus \in {HoldBonus(note_count, hold_notes)}})

calculate_difficulty_level(chart) ==
    LevelOf(Len(chart.notes), duration(chart), chart.metadata.bpm,
            HoldCount(chart.notes))

\* u8::to_string
Digits == <<"0", "1", "2", "3", "4", "5", "6", "7", "8", "9">>
RECURSIVE DecString(_)
DecString(k) ==
    IF k < 10 THEN <<Digits[k + 1]>>
    ELSE DecString(k \div 10) \o <<Digits[(k % 10) + 1]>>

generate_tags(chart) ==
    LET mode == chart.metadata.mode
        bpm == chart.metadata.bpm
        note_count == Len(chart.notes)
        holds == HoldCount(chart.notes)
        mode_tag == IF mode \in 0..4 THEN <<DecString(mode + 4) \o <<"k">>>>
                    ELSE <<DecString(chart.metadata.columns) \o <<"k">>>>
        bpm_tag == IF RLe(R(180), bpm)
                   THEN <<<<"h", "i", "g", "h", "-", "b", "p", "m">>>>
                   ELSE IF RLe(bpm, R(100))
                   THEN <<<<"l", "o", "w", "-", "b", "p", "m">>>>
                   ELSE <<>>
        count_tag == IF note_count >= 1000 THEN <<<<"l", "o", "n", "g">>>>
                     ELSE IF note_count <= 100
                     THEN <<<<"s", "h", "o", "r", "t">>>>
                     ELSE <<>>
        hold_tag == IF 10 * holds > 3 * (IF note_count > 1 THEN note_count ELSE 1)
                    THEN <<<<"h", "o", "l", "d", "-", "h", "e", "a", "v", "y">>>>
                    ELSE <<>>
    IN  mode_tag \o bpm_tag \o count_tag \o hold_tag

\* The push without the sort_by_key that follows it
keep_insertion_order(s) == s

\* Vec::sort_by_key(|d| d.level): stable
RECURSIVE LevelInsert(_, _)
LevelInsert(sorted, x) ==
    IF sorted = <<>> THEN <<x>>
    ELSE IF sorted[Len(sorted)].level <= x.level THEN Append(sorted, x)
    ELSE Only({Append(LevelInsert(front, x), sorted[Len(sorted)]) :
                 front \in {SubSeq(sorted, 1, Len(sorted) - 1)}})

RECURSIVE LevelSortFrom(_, _, _)
LevelSortFrom(s, i, acc) ==
    IF i > Len(s) THEN acc
    ELSE Only({LevelSortFrom(s, i + 1, next) : next \in {LevelInsert(acc, s[i])}})

sort_by_level(s) == Only({LevelSortFrom(v, 1, <<>>) : v \in {s}})

-----------------------------------------------------------------------------
(* Paths and the file system: a path is a sequence of names, a name a       *)
(* sequence of characters; fs maps the path of every file to its content.  *)

IsPrefix(p, q) == Len(p) <= Len(q) /\ SubSeq(q, 1, Len(p)) = p

LastDot(name) ==
    IF \E i \in 1..Len(name) : name[i] = "."
    THEN CHOOSE i \in 1..Len(name) :
             name[i] = "." /\ \A j \in (i + 1)..Len(name) : name[j] # "."
    ELSE 0

\* Path::file_stem of a file name
file_stem(name) ==
    IF LastDot(name) <= 1 THEN name ELSE SubSeq(name, 1, LastDot(name) - 1)

\* Path::extension of a file name
extension(name) ==
    IF LastDot(name) <= 1 THEN None
    ELSE Some(SubSeq(name, LastDot(name) + 1, Len(name)))

McExt == <<"m", "c">>

\* fs::remove_dir_all
remove_dir_all(files, dir) ==
    [p \in {q \in DOMAIN files : ~IsPrefix(dir, q)} |-> files[p]]

\* ProjectDirs::data_dir().join("charts")
charts_dir == <<<<"d", "a", "t", "a">>, <<"c", "h", "a", "r", "t", "s">>>>

\* The root component of an absolute entry name, and the parent component
RootDir == <<"/">>
ParentDir == <<".", ".">>

\* Path::join: an absolute name replaces the base (the paths of the model
\* are all taken from the root)
PathJoin(base, name) ==
    IF name # <<>> /\ name[1] = RootDir THEN Tail(name) ELSE base \o name

\* The file a path names when it is opened: each `..` component leaves the
\* directory reached so far (the root is its own parent)
RECURSIVE ResolveFrom(_, _, _)
ResolveFrom(path, i, acc) ==
    IF i > Len(path) THEN acc
    ELSE Only({ResolveFrom(path, i + 1, next) :
                 next \in {IF path[i] = ParentDir
                           THEN (IF acc = <<>> THEN acc
                                 ELSE SubSeq(acc, 1, Len(acc) - 1))
                           ELSE Append(acc, path[i])}})

\* The file that File::create(extract_dir.join(file_name)) writes
OutputPath(extract_dir, file_name) ==
    Only({ResolveFrom(output_path, 1, <<>>) :
            output_path \in {PathJoin(extract_dir, file_name)}})

\* extract_mcz: every entry that is no directory marker is written to
\* extract_dir.join(name), the name being taken as it stands in the archive
extract_mcz(files, mcz_path, extract_dir) ==
    IF mcz_path \notin DOMAIN files THEN [ok |-> FALSE, files |-> files]
    ELSE IF files[mcz_path].kind # "zip" THEN [ok |-> FALSE, files |-> files]
    ELSE LET entries == files[mcz_path].entries
             kept == {i \in 1..Len(entries) : ~entries[i].dir}
             out == {OutputPath(extract_dir, entries[i].name) : i \in kept}
             \* a later entry of the same name overwrites an earlier one
             src(path) == CHOOSE i \in kept :
                              /\ OutputPath(extract_dir, entries[i].name) = path
                              /\ \A j \in kept :
                                     OutputPath(extract_dir, entries[j].name) = path
                                         => j <= i
         IN  [ok |-> TRUE,
              files |-> [p \in DOMAIN files \cup out |->
                            IF p \in out THEN entries[src(p)].content
                            ELSE files[p]]]

-----------------------------------------------------------------------------
(* chart/manager.rs: ChartManager's operations on the index *)

EmptyMap == [x \in {} |-> x]

\* HashMap::insert
MapInsert(m, k, v) == [x \in DOMAIN m \cup {k} |-> IF x = k THEN v ELSE m[x]]
\* HashMap::remove
MapRemove(m, k) == [x \in DOMAIN m \ {k} |-> m[x]]

\* The ChartDifficulty that process_chart_file builds
NewDifficulty(chart, chart_path) ==
    [name |-> chart.metadata.version,
     level |-> calculate_difficulty_level(chart),
     note_count |-> Len(chart.notes),
     duration |-> duration(chart),
     file_path |-> chart_path,
     mode |-> chart.metadata.mode,
     columns |-> chart.metadata.columns,
     preview |-> None]

\* The ChartInfo that process_chart_file builds for a new identity
NewChartInfo(chart, chart_id, difficulty, source_path, now) ==
    [id |-> chart_id,
     title |-> chart.metadata.title,
     artist |-> chart.metadata.artist,
     creator |-> chart.metadata.creator,
     version |-> chart.metadata.version,
     bpm |-> chart.metadata.bpm,
     difficulties |-> <<difficulty>>,
     audio_path |-> chart.metadata.audio,
     background_path |-> chart.metadata.background,
     source_file |-> source_path,
     import_date |-> now,
     play_count |-> 0,
     last_played |-> None,
     rating |-> None,
     tags |-> generate_tags(chart)]

\* A merge that replaces the difficulty list instead of appending to it
process_chart_replacing(charts, chart, chart_path, source_path, now) ==
    Only({Only({[charts |-> MapInsert(charts, chart_id, info), info |-> info] :
                  info \in {IF chart_id \in DOMAIN charts
                            THEN [charts[chart_id] EXCEPT
                                     !.difficulties = <<difficulty>>,
                                     !.last_played = None,
                                     !.play_count = 0]
                            ELSE NewChartInfo(chart, chart_id, difficulty,
                                              source_path, now)}}) :
            chart_id \in {generate_chart_id(chart)},
            difficulty \in {NewDifficulty(chart, chart_path)}})

\* A merge that leaves the play statistics of the entry as they were
process_chart_keeping_plays(charts, chart, chart_path, source_path, now) ==
    Only({Only({[charts |-> MapInsert(charts, chart_id, info), info |-> info] :
                  info \in {IF chart_id \in DOMAIN charts
                            THEN [charts[chart_id] EXCEPT
                                     !.difficulties =
                                         sort_by_level(Append(@, difficulty))]
                            ELSE NewChartInfo(chart, chart_id, difficulty,
                                              source_path, now)}}) :
            chart_id \in {generate_chart_id(chart)},
            difficulty \in {NewDifficulty(chart, chart_path)}})

\* process_chart_file that inserts its ChartInfo without looking for an
\* entry of the same identity
process_chart_overwriting(charts, chart, chart_path, source_path, now) ==
    Only({[charts |-> MapInsert(charts, chart_id, chart_info),
           info |-> chart_info] :
            chart_id \in {generate_chart_id(chart)},
            chart_info \in {NewChartInfo(chart, generate_chart_id(chart),
                                         NewDifficulty(chart, chart_path),
                                         source_path, now)}})

\* process_chart_file after the parse: the part under the write lock.
\* Gives the new chart map and the ChartInfo returned.
process_chart(charts, chart, chart_path, source_path, now) ==
    Only({IF chart_id \in DOMAIN charts
          THEN Only({[charts |-> [charts EXCEPT ![chart_id] = existing],
                      info |-> existing] :
                       existing \in
                           {[charts[chart_id] EXCEPT
                                !.difficulties =
                                    sort_by_level(Append(@, difficulty)),
                                !.last_played = None,
                                !.play_count = 0]}})
          ELSE Only({[charts |-> MapInsert(charts, chart_id, chart_info),
                      info |-> chart_info] :
                       chart_info \in
                           {NewChartInfo(chart, chart_id, difficulty,
                                         source_path, now)}}) :
            chart_id \in {generate_chart_id(chart)},
            difficulty \in {NewDifficulty(chart, chart_path)}})

\* The filter of search_charts without the lowering of the title
search_matches_title_as_is(chart, query) ==
    LET query_lower == to_lowercase(query)
    IN  \/ contains(chart.title, query_lower)
        \/ contains(to_lowercase(chart.artist), query_lower)
        \/ contains(to_lowercase(chart.creator), query_lower)
        \/ \E i \in 1..Len(chart.tags) : contains(chart.tags[i], query_lower)

\* The filter closure of search_charts
search_matches(chart, query) ==
    LET query_lower == to_lowercase(query)
    IN  \/ contains(to_lowercase(chart.title), query_lower)
        \/ contains(to_lowercase(chart.artist), query_lower)
        \/ contains(to_lowercase(chart.creator), query_lower)
        \/ \E i \in 1..Len(chart.tags) : contains(chart.tags[i], query_lower)

\* search_charts on the locked index; the Vec returned is in the HashMap's
\* iteration order, so it is modelled as a set
search_charts(charts, query) ==
    {charts[id] : id \in {k \in DOMAIN charts : search_matches(charts[k], query)}}

-----------------------------------------------------------------------------
(* The inputs: archives, chart documents, identities, queries *)

NumThreads == 2
Threads == 1..NumThreads
NoThread == 0

\* Calls made in one run
MaxCalls == 3

Garbage == [kind |-> "garbage"]
Json(doc) == [kind |-> "json", doc |-> doc]

\* MalodyMeta, with song.title, song.artist and mode_ext.column as the
\* fields title, artist and column
MetaSky ==
    [title |-> <<"S", "k", "y">>, artist |-> <<"A", "b">>,
     creator |-> <<"c", "z">>, version |-> <<"E", "z">>,
     mode |-> 0, column |-> Some(4), background |-> None]

MetaSun ==
    [title |-> <<"s", "u", "n">>, artist |-> <<"a", "B">>,
     creator |-> <<"Z">>, version |-> <<"H", "d">>,
     mode |-> 7, column |-> Some(9), background |-> None]

RawNote(beat, column, sound, note_type, end) ==
    [beat |-> beat, column |-> column, sound |-> sound, vol |-> None,
     offset |-> None, note_type |-> note_type, end |-> end]

\* Sky, one tap after the audio reference: level 2
DocEasy ==
    [meta |-> MetaSky,
     time |-> <<[beat |-> <<0, 0, 1>>, bpm |-> R(120)]>>,
     effect |-> <<>>,
     note |-> <<RawNote(<<0, 0, 1>>, Some(0), Some("song.ogg"), None, None),
                RawNote(<<4, 0, 4>>, Some(1), None, None, None)>>]

\* Sky again (the same identity), one hold: level 7
DocHard ==
    [meta |-> MetaSky,
     time |-> <<[beat |-> <<0, 0, 1>>, bpm |-> R(120)]>>,
     effect |-> <<>>,
     note |-> <<RawNote(<<0, 0, 1>>, Some(1), None, Some(1), Some(<<8, 0, 1>>))>>]

DocSun ==
    [meta |-> MetaSun,
     time |-> <<[beat |-> <<0, 0, 1>>, bpm |-> R(200)]>>,
     effect |-> <<>>,
     note |-> <<RawNote(<<2, 1, 2>>, Some(3), None, None, None)>>]

Entry(name, content) == [name |-> name, dir |-> FALSE, content |-> content]
DirEntry(name) == [name |-> name, dir |-> TRUE, content |-> Garbage]

ArchA == <<<<"h", "o", "m", "e">>, <<"a", ".", "m", "c", "z">>>>
ArchB == <<<<"h", "o", "m", "e">>, <<"b", ".", "m", "c", "z">>>>
\* a file of the same base name as ArchA that is no zip container
ArchBad == <<<<"t", "m", "p">>, <<"a", ".", "m", "c", "z">>>>

ArchivePaths == {ArchA, ArchB, ArchBad}

InitialFiles ==
    (ArchA :> [kind |-> "zip",
               entries |-> <<Entry(<<<<"e", ".", "m", "c">>>>, Json(DocEasy)),
                             Entry(<<<<"x", ".", "m", "c">>>>, Garbage),
                             Entry(<<<<"b", ".", "j", "p", "g">>>>, Garbage)>>])
    @@ (ArchB :> [kind |-> "zip",
                  entries |-> <<DirEntry(<<<<"s">>>>),
                                Entry(<<<<"s">>, <<"h", ".", "m", "c">>>>, Json(DocHard)),
                                Entry(<<<<"n", ".", "m", "c">>>>, Json(DocSun))>>])
    @@ (ArchBad :> Garbage)

IdSky == Sha256Hex8(IdString(MetaSky))
IdSun == Sha256Hex8(IdString(MetaSun))
ChartIds == {IdSky, IdSun}

Ratings == {R(3), R(7)}

Queries == {<<"S", "K">>, <<"b">>, <<"4", "K">>, <<"B", "P", "M">>}

-----------------------------------------------------------------------------
(* The library index manager as a state machine.  A thread that needs the  *)
(* index lock takes its step only when no thread holds it; a guard lives   *)
(* to the end of the function that took it.  `.unwrap()` on a poisoned     *)
(* lock panics, and the panicking thread never returns from its call.      *)

NoCall == [op |-> "none", arg |-> <<>>]
NoRet == [ok |-> FALSE, err |-> "none"]
NoFile == [exists |-> FALSE, charts |-> EmptyMap]

\* What a ChartManager::new() would load from the index file
Persisted == IF disk.exists THEN disk.charts ELSE EmptyMap

Begin(t, op, arg) ==
    /\ pc[t] = "idle"
    /\ clock < MaxCalls
    /\ clock' = clock + 1
    /\ call' = [call EXCEPT ![t] = [op |-> op, arg |-> arg]]

Return(t, value) ==
    /\ pc' = [pc EXCEPT ![t] = "idle"]
    /\ ret' = [ret EXCEPT ![t] = value]

\* The unwinding of a panic: the call never returns
Panic(t) ==
    /\ pc' = [pc EXCEPT ![t] = "panicked"]
    /\ UNCHANGED ret

\* import_mcz_file up to the walk: stage the archive into charts_dir/<stem>
ImportStart(t, mcz_path) ==
    /\ Begin(t, "import_mcz_file", mcz_path)
    /\ \E extract_dir \in {Append(charts_dir, file_stem(mcz_path[Len(mcz_path)]))} :
       \E ex \in {extract_mcz(remove_dir_all(fs, extract_dir), mcz_path,
                              extract_dir)} :
       \E found \in {{q \in DOMAIN ex.files :
                         /\ IsPrefix(extract_dir, q)
                         /\ extension(q[Len(q)]) = Some(McExt)}} :
           /\ fs' = ex.files
           /\ IF ex.ok
              THEN /\ todo' = [todo EXCEPT ![t] = found]
                   /\ imported' = [imported EXCEPT ![t] = <<>>]
                   /\ pc' = [pc EXCEPT ![t] =
                                IF found = {} THEN "update_index" ELSE "walk"]
                   /\ UNCHANGED ret
              ELSE /\ Return(t, Err("Zip"))
                   /\ UNCHANGED <<todo, imported>>
    /\ UNCHANGED <<index, disk, lock, poisoned, funVars>>

\* The walk with `?` on process_chart_file: a parse failure ends the call
ProcessEntryAborting(t) ==
    /\ pc[t] = "walk"
    /\ \E path \in todo[t] :
       \E parsed \in {parse_from_file(fs, path)}, rest \in {todo[t] \ {path}} :
           IF parsed.ok
           THEN /\ lock = NoThread
                /\ ~poisoned
                /\ \E r \in {process_chart(index, parsed.val, path,
                                           call[t].arg, clock)} :
                       /\ index' = r.charts
                       /\ imported' = [imported EXCEPT ![t] = Append(@, r.info)]
                       /\ todo' = [todo EXCEPT ![t] = rest]
                       /\ pc' = [pc EXCEPT ![t] =
                                    IF rest = {} THEN "update_index" ELSE "walk"]
                       /\ UNCHANGED ret
           ELSE /\ Return(t, Err("Parse"))
                /\ UNCHANGED <<index, imported, todo>>
    /\ UNCHANGED <<disk, fs, lock, poisoned, call, clock, funVars>>

\* One iteration of the walk: process_chart_file on the next .mc file.  A
\* file that does not parse (or is no longer there) is logged and skipped
\* without touching the lock.
ProcessEntry(t) ==
    /\ pc[t] = "walk"
    /\ \E path \in todo[t] :
       \E parsed \in {parse_from_file(fs, path)}, rest \in {todo[t] \ {path}} :
           IF parsed.ok
           THEN /\ lock = NoThread
                /\ IF poisoned
                   THEN /\ Panic(t)
                        /\ UNCHANGED <<index, imported, todo>>
                   ELSE \E r \in {process_chart(index, parsed.val, path,
                                                call[t].arg, clock)} :
                            /\ index' = r.charts
                            /\ imported' =
                                   [imported EXCEPT ![t] = Append(@, r.info)]
                            /\ todo' = [todo EXCEPT ![t] = rest]
                            /\ pc' = [pc EXCEPT ![t] =
                                         IF rest = {} THEN "update_index"
                                         ELSE "walk"]
                            /\ UNCHANGED ret
           ELSE /\ todo' = [todo EXCEPT ![t] = rest]
                /\ pc' = [pc EXCEPT ![t] =
                             IF rest = {} THEN "update_index" ELSE "walk"]
                /\ UNCHANGED <<index, imported, ret>>
    /\ UNCHANGED <<disk, fs, lock, poisoned, call, clock, funVars>>

\* update_index by a thread that holds no guard (the end of import_mcz_file),
\* and the return of the call: the index is written whole; fs::write may
\* fail, and the error is the call's result.
UpdateIndex(t) ==
    /\ pc[t] = "update_index"
    /\ lock = NoThread
    /\ IF poisoned
       THEN /\ Panic(t)
            /\ UNCHANGED disk
       ELSE \E write_ok \in BOOLEAN :
                IF write_ok
                THEN /\ disk' = [exists |-> TRUE, charts |-> index]
                     /\ Return(t, Ok(imported[t]))
                ELSE /\ disk' = disk
                     /\ Return(t, Err("Io"))
    /\ UNCHANGED <<index, fs, lock, poisoned, call, todo, imported, clock, funVars>>

\* update_index by a thread that still holds the write guard it took in
\* delete_chart, record_play or set_rating: RwLock::write on a lock the
\* thread holds either blocks for ever (the thread takes no further step)
\* or panics; the panic drops the guard and poisons the lock.
ReentrantWritePanic(t) ==
    /\ pc[t] = "update_index"
    /\ lock = t
    /\ lock' = NoThread
    /\ poisoned' = TRUE
    /\ Panic(t)
    /\ UNCHANGED <<index, disk, fs, call, todo, imported, clock, funVars>>

\* delete_chart with an unknown identity reported as an error
DeleteChartStrict(t, chart_id) ==
    /\ Begin(t, "delete_chart", chart_id)
    /\ lock = NoThread
    /\ ~poisoned
    /\ chart_id \notin DOMAIN index
    /\ Return(t, Err("NotFound"))
    /\ UNCHANGED <<index, fs, lock, disk, poisoned, todo, imported, funVars>>

\* delete_chart: the write guard is held from the first line on, so the
\* update_index it calls for a known identity meets the caller's own lock
DeleteChart(t, chart_id) ==
    /\ Begin(t, "delete_chart", chart_id)
    /\ lock = NoThread
    /\ IF poisoned
       THEN /\ Panic(t)
            /\ UNCHANGED <<index, fs, lock>>
       ELSE IF chart_id \in DOMAIN index
       THEN \E source_path \in {index[chart_id].source_file} :
            \E parent \in {SubSeq(source_path, 1, Len(source_path) - 1)} :
                /\ index' = MapRemove(index, chart_id)
                /\ fs' = IF /\ source_path \in DOMAIN fs
                            /\ IsPrefix(charts_dir, parent)
                         THEN remove_dir_all(fs, parent)
                         ELSE fs
                /\ lock' = t
                /\ pc' = [pc EXCEPT ![t] = "update_index"]
                /\ UNCHANGED ret
       ELSE /\ Return(t, Ok(<<>>))
            /\ UNCHANGED <<index, fs, lock>>
    /\ UNCHANGED <<disk, poisoned, todo, imported, funVars>>

\* record_play that counts the play for every chart of the index
RecordPlayCountingAll(t, chart_id) ==
    /\ Begin(t, "record_play", chart_id)
    /\ lock = NoThread
    /\ IF poisoned
       THEN /\ Panic(t)
            /\ UNCHANGED <<index, lock>>
       ELSE /\ index' = IF chart_id \in DOMAIN index
                        THEN [k \in DOMAIN index |->
                                 [index[k] EXCEPT !.play_count = @ + 1,
                                                  !.last_played = Some(clock')]]
                        ELSE index
            /\ lock' = t
            /\ pc' = [pc EXCEPT ![t] = "update_index"]
            /\ UNCHANGED ret
    /\ UNCHANGED <<disk, fs, poisoned, todo, imported, funVars>>

\* record_play: as delete_chart, and update_index is called in every case.
\* play_count is a u32; no run of MaxCalls calls brings it near u32::MAX.
RecordPlay(t, chart_id) ==
    /\ Begin(t, "record_play", chart_id)
    /\ lock = NoThread
    /\ IF poisoned
       THEN /\ Panic(t)
            /\ UNCHANGED <<index, lock>>
       ELSE /\ index' = IF chart_id \in DOMAIN index
                        THEN [index EXCEPT ![chart_id].play_count = @ + 1,
                                           ![chart_id].last_played = Some(clock')]
                        ELSE index
            /\ lock' = t
            /\ pc' = [pc EXCEPT ![t] = "update_index"]
            /\ UNCHANGED ret
    /\ UNCHANGED <<disk, fs, poisoned, todo, imported, funVars>>

\* f32::clamp(0.0, 5.0)
ClampRating(rating) ==
    IF RLt(rating, R(0)) THEN R(0) ELSE IF RLt(R(5), rating) THEN R(5) ELSE rating

SetRating(t, chart_id, rating) ==
    /\ Begin(t, "set_rating", chart_id)
    /\ lock = NoThread
    /\ IF poisoned
       THEN /\ Panic(t)
            /\ UNCHANGED <<index, lock>>
       ELSE /\ index' = IF chart_id \in DOMAIN index
                        THEN [index EXCEPT
                                 ![chart_id].rating = Some(ClampRating(rating))]
                        ELSE index
            /\ lock' = t
            /\ pc' = [pc EXCEPT ![t] = "update_index"]
            /\ UNCHANGED ret
    /\ UNCHANGED <<disk, fs, poisoned, todo, imported, funVars>>

\* The reads take the shared lock for the length of one expression
GetAllCharts(t) ==
    /\ Begin(t, "get_all_charts", <<>>)
    /\ lock = NoThread
    /\ IF poisoned THEN Panic(t)
       ELSE Return(t, Ok({index[id] : id \in DOMAIN index}))
    /\ UNCHANGED <<index, disk, fs, lock, poisoned, todo, imported, funVars>>

SearchCharts(t, query) ==
    /\ Begin(t, "search_charts", query)
    /\ lock = NoThread
    /\ IF poisoned THEN Panic(t)
       ELSE Return(t, Ok(search_charts(index, query)))
    /\ UNCHANGED <<index, disk, fs, lock, poisoned, todo, imported, funVars>>

GetChartById(t, chart_id) ==
    /\ Begin(t, "get_chart_by_id", chart_id)
    /\ lock = NoThread
    /\ IF poisoned THEN Panic(t)
       ELSE Return(t, Ok(IF chart_id \in DOMAIN index THEN Some(index[chart_id])
                         ELSE None))
    /\ UNCHANGED <<index, disk, fs, lock, poisoned, todo, imported, funVars>>

\* A fresh installation: no index file, nothing extracted
MgrInit ==
    /\ index = EmptyMap
    /\ disk = NoFile
    /\ fs = InitialFiles
    /\ lock = NoThread
    /\ poisoned = FALSE
    /\ pc = [t \in Threads |-> "idle"]
    /\ call = [t \in Threads |-> NoCall]
    /\ ret = [t \in Threads |-> NoRet]
    /\ todo = [t \in Threads |-> {}]
    /\ imported = [t \in Threads |-> <<>>]
    /\ clock = 0

Init ==
    /\ MgrInit
    /\ input = <<>>
    /\ output = <<>>
    /\ phase = "unused"

Next ==
    \E t \in Threads :
        \/ \E mcz_path \in ArchivePaths : ImportStart(t, mcz_path)
        \/ ProcessEntry(t)
        \/ UpdateIndex(t)
        \/ ReentrantWritePanic(t)
        \/ \E chart_id \in ChartIds : DeleteChart(t, chart_id)
        \/ \E chart_id \in ChartIds : RecordPlay(t, chart_id)
        \/ \E chart_id \in ChartIds : \E rating \in Ratings :
               SetRating(t, chart_id, rating)
        \/ GetAllCharts(t)
        \/ \E query \in Queries : SearchCharts(t, query)
        \/ \E chart_id \in ChartIds : GetChartById(t, chart_id)

Spec == Init /\ [][Next]_vars

-----------------------------------------------------------------------------
(* Properties of the index manager, checked under Spec *)

\* The identity of a chart: title, artist, creator, version
SameIdentity(a, b) ==
    /\ a.title = b.title
    /\ a.artist = b.artist
    /\ a.creator = b.creator
    /\ a.version = b.version

\* How often d occurs in the list s
CountIn(s, d) == Cardinality({i \in 1..Len(s) : s[i] = d})

\* No two index entries carry the same identity
NoDuplicateIdentity(charts) ==
    \A a \in DOMAIN charts : \A b \in DOMAIN charts :
        SameIdentity(charts[a], charts[b]) => a = b

\* An import step that parsed `path` into `chart` while the index held the
\* entry k of the same identity: no entry is added, entry k keeps every
\* difficulty it had and gains exactly one, the other entries are untouched
MergedInto(k, chart) ==
    /\ DOMAIN index' = DOMAIN index
    /\ Len(index'[k].difficulties) = Len(index[k].difficulties) + 1
    /\ \A i \in 1..Len(index[k].difficulties) :
           CountIn(index'[k].difficulties, index[k].difficulties[i])
               >= CountIn(index[k].difficulties, index[k].difficulties[i])
    /\ \E i \in 1..Len(index'[k].difficulties) :
           /\ index'[k].difficulties[i].name = chart.metadata.version
           /\ index'[k].difficulties[i].note_count = Len(chart.notes)
    /\ \A other \in DOMAIN index \ {k} : index'[other] = index[other]

\* C1: whenever import_mcz_file processes a chart file that parses and whose
\* identity (title, artist, creator, version) is that of an entry already in
\* the index, no second entry is created for the identity: the existing
\* entry keeps all difficulties it had and gains exactly one; after every
\* import step no two entries share an identity.
C1_MergeAppendsDifficulties ==
    [][\A t \in Threads :
           (ProcessEntry(t) /\ pc'[t] # "panicked") =>
               /\ NoDuplicateIdentity(index')
               /\ \A path \in todo[t] \ todo'[t] :
                  \A parsed \in {parse_from_file(fs, path)} :
                      parsed.ok =>
                          \A k \in DOMAIN index :
                              SameIdentity(index[k], parsed.val.metadata)
                                  => MergedInto(k, parsed.val)]_vars

\* C1 witness: an entry that went through a merge holds two difficulties of
\* different levels
C1_Witness ==
    \E k \in DOMAIN index :
        /\ Len(index[k].difficulties) >= 2
        /\ index[k].difficulties[1].level # index[k].difficulties[2].level

\* One iteration of the walk of thread t, as import_mcz_file promises it:
\* the file is taken off the walk, a file that parses adds one ChartInfo to
\* the result, a file that does not adds none, and the call goes on
WalkStepCounts(t) ==
    \/ pc'[t] = "panicked"
    \/ \E path \in todo[t] :
           /\ todo'[t] = todo[t] \ {path}
           /\ pc'[t] = IF todo'[t] = {} THEN "update_index" ELSE "walk"
           /\ ret'[t] = ret[t]
           /\ IF parse_from_file(fs, path).ok
              THEN /\ Len(imported'[t]) = Len(imported[t]) + 1
                   /\ SubSeq(imported'[t], 1, Len(imported[t])) = imported[t]
              ELSE imported'[t] = imported[t]

C3_DeleteMissingIsNoOp ==
    [][\A t \in Threads : \A chart_id \in ChartIds :
           (DeleteChart(t, chart_id) /\ chart_id \notin DOMAIN index) =>
               /\ UNCHANGED <<index, disk, fs>>
               /\ pc'[t] \in {"idle", "panicked"}
               /\ pc'[t] = "idle" => ret'[t] = Ok(<<>>)]_vars

\* C3 witness: delete_chart of an identity unknown to a non-empty, persisted
\* index has returned Ok
C3_Witness ==
    \E t \in Threads :
        /\ pc[t] = "idle"
        /\ call[t].op = "delete_chart"
        /\ call[t].arg \notin DOMAIN index
        /\ ret[t] = Ok(<<>>)
        /\ index # EmptyMap
        /\ disk.exists

\* Thread t is inside a mutating call, has changed the in-memory index and
\* has not yet rewritten the index file
ChangedNotFlushed(t) ==
    /\ pc[t] \in {"walk", "update_index"}
    /\ call[t].op = "import_mcz_file" => imported[t] # <<>>

\* C4: a mutating call holds the exclusive index lock from its first change
\* to the in-memory index until its rewrite of the index file has finished.
C4_LockHeldFromChangeToFlush ==
    \A t \in Threads : ChangedNotFlushed(t) => lock = t

\* C5: whenever no call is in progress (every mutating call has returned,
\* with Ok or with an error), the chart map of the index file equals the
\* chart map in memory.
C5_DiskEqualsMemoryAtRest ==
    (\A t \in Threads : pc[t] = "idle") => Persisted = index

\* Thread t makes a call that takes the index lock as its first step
TakesLockAtOnce(t) ==
    \/ GetAllCharts(t)
    \/ \E query \in Queries : SearchCharts(t, query)
    \/ \E chart_id \in ChartIds :
           \/ GetChartById(t, chart_id)
           \/ DeleteChart(t, chart_id)
           \/ RecordPlay(t, chart_id)
           \/ \E rating \in Ratings : SetRating(t, chart_id, rating)

\* C11: once a thread has panicked while holding the index lock (the lock
\* is poisoned), a call of any operation returns an error to its caller:
\* it neither panics nor goes on as if the index were intact.
C11_PoisonSurfacesAsError ==
    [][\A t \in Threads :
           poisoned =>
               /\ TakesLockAtOnce(t) => (pc'[t] = "idle" /\ ~ret'[t].ok)
               /\ (ProcessEntry(t) \/ UpdateIndex(t))
                      => pc'[t] # "panicked"]_vars

\* The list of difficulties is in ascending order of level
SortedByLevel(difficulties) ==
    \A i \in 1..Len(difficulties) : \A j \in i..Len(difficulties) :
        difficulties[i].level <= difficulties[j].level

\* C13: in every state the index reaches from the empty index, through any
\* interleaving of imports, deletes, record_play and set_rating calls, the
\* difficulties of every ChartInfo are sorted ascending by level.
C13_DifficultiesSortedByLevel ==
    \A k \in DOMAIN index : SortedByLevel(index[k].difficulties)

\* C13 witness: an entry created from the hold chart of level 7 (its tags
\* say hold-heavy) lists the later imported level-2 chart first
C13_Witness ==
    \E k \in DOMAIN index :
        /\ \E i \in 1..Len(index[k].tags) :
               index[k].tags[i] = <<"h", "o", "l", "d", "-", "h", "e", "a", "v", "y">>
        /\ Len(index[k].difficulties) = 2
        /\ index[k].difficulties[1].level = 2
        /\ index[k].difficulties[2].level = 7

\* Two characters that are the same letter in either case
SameLetter(a, b) == LowerChar(a) = LowerChar(b)

\* p occurs in s, letters compared without regard to case
ContainsIgnoringCase(s, p) ==
    \E k \in 0..(Len(s) - Len(p)) :
        \A i \in 1..Len(p) : SameLetter(s[k + i], p[i])

\* The entries search_charts is to return
SearchExpected(charts, q) ==
    {charts[k] : k \in {id \in DOMAIN charts :
        \/ ContainsIgnoringCase(charts[id].title, q)
        \/ ContainsIgnoringCase(charts[id].artist, q)
        \/ ContainsIgnoringCase(charts[id].creator, q)
        \/ \E i \in 1..Len(charts[id].tags) :
               ContainsIgnoringCase(charts[id].tags[i], q)}}

-----------------------------------------------------------------------------
(* search_charts on the indexes that imports build *)

\* Chart documents imported into one index
MaxLibrary == 2

MetaLow ==
    [title |-> <<"K", "4">>, artist |-> <<"h", "O">>,
     creator |-> <<"s", "k">>, version |-> <<"E", "z">>,
     mode |-> 2, column |-> None, background |-> None]

\* K4 at tempo 90: tags 6k, low-bpm, short
DocLow ==
    [meta |-> MetaLow,
     time |-> <<[beat |-> <<0, 0, 1>>, bpm |-> R(90)]>>,
     effect |-> <<>>,
     note |-> <<RawNote(<<1, 0, 1>>, Some(2), None, None, None),
                RawNote(<<2, 0, 1>>, Some(0), None, None, None)>>]

LibraryDocs == {DocEasy, DocHard, DocSun, DocLow}

\* The sequences over S of length at most n
SeqsUpTo(S, n) == UNION {[1..k -> S] : k \in 0..n}

\* The index after process_chart_file on docs[i], docs[i+1], ...
RECURSIVE LibraryFrom(_, _, _)
LibraryFrom(docs, i, charts) ==
    IF i > Len(docs) THEN charts
    ELSE Only({Only({LibraryFrom(docs, i + 1, r.charts) :
                       r \in {process_chart(charts, chart,
                                            Append(charts_dir, <<"f", i>>),
                                            ArchA, i)}}) :
                 chart \in {parse_from_str(Json(docs[i])).val}})

\* Queries in several spellings; "Hd" and "Ez" occur in versions only
SearchProbes ==
    {<<"S", "K">>, <<"s", "k">>, <<"s", "K">>, <<"b">>, <<"B">>,
     <<"4", "K">>, <<"4", "k">>, <<"k", "4">>, <<"B", "P", "M">>,
     <<"b", "p", "m">>, <<"-", "b", "P">>, <<"Z">>, <<"z">>, <<"U", "n">>,
     <<"H", "d">>, <<"E", "z">>, <<"S", "H", "O", "R", "T">>, <<>>}

SearchInit ==
    /\ MgrInit
    /\ input \in {[charts |-> LibraryFrom(docs, 1, EmptyMap), query |-> q] :
                    docs \in SeqsUpTo(LibraryDocs, MaxLibrary),
                    q \in SearchProbes}
    /\ output = <<>>
    /\ phase = "search"

SearchRun ==
    /\ phase = "search"
    /\ output' = search_charts(input.charts, input.query)
    /\ phase' = "search_done"
    /\ UNCHANGED <<input, mgrVars>>

SpecSearch == SearchInit /\ [][SearchRun]_vars

\* C10: search_charts(q) returns exactly the index entries whose title,
\* artist, creator or some tag contains q without regard to letter case,
\* and a query that differs from q only in letter case returns the same
\* entries.
C10_SearchIgnoresCase ==
    phase = "search_done" =>
        /\ output = SearchExpected(input.charts, input.query)
        /\ \A v \in SearchProbes :
               to_lowercase(v) = to_lowercase(input.query)
                   => search_charts(input.charts, v) = output

\* C10 witness: search_charts("SK") on an index of two entries has returned
\* the entry titled "Sky" and not the entry titled "sun"
C10_Witness ==
    /\ phase = "search_done"
    /\ input.query = <<"S", "K">>
    /\ Cardinality(DOMAIN input.charts) = 2
    /\ Cardinality(output) = 1
    /\ \A e \in output : e.title = <<"S", "k", "y">>

-----------------------------------------------------------------------------
(* generate_chart_id on pairs of charts *)

\* Characters in one identity field
MaxFieldLen == 1

\* The field values: strings over a letter and the separator
FieldValues == SeqsUpTo({"a", "_"}, MaxFieldLen)

IdentityFields == {"title", "artist", "creator", "version"}

\* A chart of the given identity; `other` selects different notes, tempo
\* list, mode and column count
ChartOf(title, artist, creator, version, other) ==
    [metadata |->
         [title |-> title, artist |-> artist, creator |-> creator,
          version |-> version, background |-> None,
          audio |-> IF other THEN Some("song.ogg") ELSE None,
          audio_offset |-> 0,
          bpm |-> IF other THEN R(200) ELSE R(120),
          mode |-> IF other THEN 7 ELSE 0,
          columns |-> IF other THEN 9 ELSE 4],
     bpm_changes |->
         IF other
         THEN <<[time |-> R(0), bpm |-> R(200), beat |-> <<0, 0, 1>>]>>
         ELSE <<>>,
     time_signatures |-> <<>>,
     speed_changes |-> <<>>,
     notes |->
         IF other
         THEN <<[id |-> 0, start_time |-> R(3), end_time |-> None, column |-> 1,
                 note_type |-> Tap, beat |-> <<10, 0, 1>>, sound |-> None,
                 volume |-> None]>>
         ELSE <<>>,
     effects |-> <<>>,
     audio_files |-> {}]

\* chart with one identity field replaced
WithField(chart, f, v) == [chart EXCEPT !.metadata[f] = v]

IdInit ==
    /\ MgrInit
    /\ input \in
           {[a |-> ChartOf(ti, ar, cr, ve, FALSE),
             b |-> WithField(ChartOf(ti, ar, cr, ve, other), f, v)] :
                ti \in FieldValues, ar \in FieldValues, cr \in FieldValues,
                ve \in FieldValues, other \in BOOLEAN,
                f \in IdentityFields, v \in FieldValues}
    /\ output = <<>>
    /\ phase = "id"

IdRun ==
    /\ phase = "id"
    /\ output' = <<generate_chart_id(input.a), generate_chart_id(input.b)>>
    /\ phase' = "id_done"
    /\ UNCHANGED <<input, mgrVars>>

SpecId == IdInit /\ [][IdRun]_vars

\* The identity fields in which two charts differ
FieldsThatDiffer(a, b) ==
    {f \in IdentityFields : a.metadata[f] # b.metadata[f]}

\* C6: two charts with equal title, artist, creator and version get the
\* same identity whatever their notes and tempo list are, and two charts
\* that differ in exactly one of the four fields get different identities.
C6_IdentityOfFourFields ==
    phase = "id_done" =>
        /\ FieldsThatDiffer(input.a, input.b) = {} => output[1] = output[2]
        /\ Cardinality(FieldsThatDiffer(input.a, input.b)) = 1
               => output[1] # output[2]

\* C6 witness: two charts of one identity and different notes and tempo
\* got the same identity
C6_Witness ==
    /\ phase = "id_done"
    /\ FieldsThatDiffer(input.a, input.b) = {}
    /\ input.a.notes # input.b.notes
    /\ input.a.metadata.bpm # input.b.metadata.bpm
    /\ output[1] = output[2]

-----------------------------------------------------------------------------
(* beat_to_time_with_bpm_changes on ascending breakpoint lists *)

\* Entries of a tempo list
MaxBreakpoints == 3

BreakpointBeats == {<<0, 0, 1>>, <<2, 1, 2>>, <<8, 0, 1>>}
Tempos == {R(60), R(120), R(240)}
TargetBeats ==
    {<<0, 0, 1>>, <<1, 1, 4>>, <<2, 1, 2>>, <<4, 0, 4>>, <<8, 0, 1>>,
     <<9, 3, 4>>, <<12, 0, 1>>}

\* The tempo lists in ascending beat order whose first entry is at beat 0
AscendingTimeLists ==
    {time \in UNION {[1..k -> [beat : BreakpointBeats, bpm : Tempos]] :
                        k \in 1..MaxBreakpoints} :
        /\ time[1].beat = <<0, 0, 1>>
        /\ \A i \in 1..(Len(time) - 1) :
               RLe(BeatValue(time[i].beat), BeatValue(time[i + 1].beat))}

BeatInit ==
    /\ MgrInit
    /\ input \in [time : AscendingTimeLists, target : TargetBeats]
    /\ output = <<>>
    /\ phase = "beat"

\* The breakpoint list as convert_to_chart builds it from the tempo list,
\* then the calculator on it
BeatRun ==
    /\ phase = "beat"
    /\ \E st \in {TimeLoop(input.time, 1,
                           [bpm |-> R(DefaultBpm), bpm_changes |-> <<>>])} :
           output' = beat_to_time_with_bpm_changes(st.bpm_changes,
                                                   input.target, st.bpm)
    /\ phase' = "beat_done"
    /\ UNCHANGED <<input, mgrVars>>

SpecBeat == BeatInit /\ [][BeatRun]_vars

\* The last entry of the ascending list at or before beat b
LastAtOrBefore(time, b) ==
    CHOOSE k \in 1..Len(time) :
        /\ RLe(BeatValue(time[k].beat), b)
        /\ \A j \in (k + 1)..Len(time) : ~RLe(BeatValue(time[j].beat), b)

\* The seconds the tempo segments 1 .. k-1 of the list take
RECURSIVE SegmentSeconds(_, _)
SegmentSeconds(time, k) ==
    IF k <= 1 THEN R(0)
    ELSE RAdd(SegmentSeconds(time, k - 1),
              RDiv(RMul(RSub(BeatValue(time[k].beat),
                             BeatValue(time[k - 1].beat)), R(60)),
                   time[k - 1].bpm))

\* The time of beat b by the segment sum
ExpectedSeconds(time, b) ==
    RAdd(SegmentSeconds(time, LastAtOrBefore(time, b)),
         RDiv(RMul(RSub(b, BeatValue(time[LastAtOrBefore(time, b)].beat)),
                   R(60)),
              time[LastAtOrBefore(time, b)].bpm))

TempoAt(beat, bpm) == [beat |-> beat, bpm |-> R(bpm)]

\* C7: for a breakpoint list in ascending beat order whose first entry is
\* at beat 0, the time of beat b is the sum of the tempo segments before b
\* (length in beats x 60 / tempo) plus (b - beat of the last breakpoint at
\* or before b) x 60 / its tempo; a single tempo of 120 maps beat (4,0,4)
\* to 2.0 s, and breakpoints (beat 0, 120), (beat 8, 240) map beat (12,0,1)
\* to 5.0 s.
C7_BeatToTimeIsSegmentSum ==
    phase = "beat_done" =>
        /\ output = ExpectedSeconds(input.time, BeatValue(input.target))
        /\ (input.time = <<TempoAt(<<0, 0, 1>>, 120)>>
               /\ input.target = <<4, 0, 4>>) => output = R(2)
        /\ (input.time = <<TempoAt(<<0, 0, 1>>, 120), TempoAt(<<8, 0, 1>>, 240)>>
               /\ input.target = <<12, 0, 1>>) => output = R(5)

\* C7 witness: breakpoints (beat 0, 120), (beat 8, 240) and beat (12,0,1)
\* gave 5.0 s
C7_Witness ==
    /\ phase = "beat_done"
    /\ input.time = <<TempoAt(<<0, 0, 1>>, 120), TempoAt(<<8, 0, 1>>, 240)>>
    /\ input.target = <<12, 0, 1>>
    /\ output = R(5)

-----------------------------------------------------------------------------
(* The parser's note times against Chart::beat_to_time *)

\* Entries of the tempo list of a parsed document
MaxTimeEntries == 2

TimePoints ==
    {TempoAt(<<0, 0, 1>>, 120), TempoAt(<<8, 0, 1>>, 240),
     TempoAt(<<4, 0, 1>>, 60)}

\* type 1: a tempo change; type 3: a scroll speed change
EffectLists ==
    {<<>>,
     <<[beat |-> <<4, 0, 1>>, effect_type |-> 1, value |-> R(60)]>>,
     <<[beat |-> <<4, 0, 1>>, effect_type |-> 3, value |-> R(2)]>>}

NoteBeats == {<<2, 1, 2>>, <<6, 0, 1>>, <<12, 0, 1>>}

ParseInit ==
    /\ MgrInit
    /\ input \in
           {[meta |-> MetaSky, time |-> time, effect |-> effect,
             note |-> <<RawNote(b1, Some(1), None, None, None),
                        RawNote(b2, Some(2), None, Some(1), Some(<<12, 0, 1>>))>>] :
                time \in UNION {[1..k -> TimePoints] : k \in 1..MaxTimeEntries},
                effect \in EffectLists, b1 \in NoteBeats, b2 \in NoteBeats}
    /\ output = <<>>
    /\ phase = "parse"

ParseRun ==
    /\ phase = "parse"
    /\ output' = parse_from_str(Json(input))
    /\ phase' = "parse_done"
    /\ UNCHANGED <<input, mgrVars>>

SpecParse == ParseInit /\ [][ParseRun]_vars

\* C8: for every chart the parser produces and every note in it,
\* Chart::beat_to_time of the note's beat is the start_time the parser
\* stored, whatever the order of the tempo list and the effect list.
C8_ChartTimeEqualsParserTime ==
    (phase = "parse_done" /\ output.ok) =>
        \A i \in 1..Len(output.val.notes) :
            Chart_beat_to_time(output.val, output.val.notes[i].beat)
                = output.val.notes[i].start_time

-----------------------------------------------------------------------------
(* calculate_difficulty_level on charts of given size, length and tempo *)

\* Notes of a chart
MaxNotes == 4

Durations == {R(0), Rat(1, 2), R(1), R(3)}
BaseTempos == {R(0), R(1), R(120), R(200), R(6000)}

\* A chart of note_count notes, hold_notes of them holds, the last one at
\* time dur
ChartWith(note_count, hold_notes, dur, bpm) ==
    [ChartOf(<<>>, <<>>, <<>>, <<>>, FALSE) EXCEPT
        !.metadata.bpm = bpm,
        !.notes = [i \in 1..note_count |->
                      [id |-> i - 1,
                       start_time |-> IF i = note_count THEN dur ELSE R(0),
                       end_time |-> None, column |-> 0,
                       note_type |-> IF i <= hold_notes THEN Hold ELSE Tap,
                       beat |-> <<0, 0, 1>>, sound |-> None,
                       volume |-> None]]]

LevelInit ==
    /\ MgrInit
    /\ input \in {in \in [note_count : 0..MaxNotes, hold_notes : 0..MaxNotes,
                          dur : Durations, bpm : BaseTempos] :
                     in.hold_notes <= in.note_count}
    /\ output = <<>>
    /\ phase = "level"

LevelRun ==
    /\ phase = "level"
    /\ \E chart \in {ChartWith(input.note_count, input.hold_notes,
                               input.dur, input.bpm)} :
           output' = calculate_difficulty_level(chart)
    /\ phase' = "level_done"
    /\ UNCHANGED <<input, mgrVars>>

SpecLevel == LevelInit /\ [][LevelRun]_vars

\* C9: calculate_difficulty_level returns a value in 1..30 for every chart
\* of non-negative note count, duration, tempo and hold-note count, a chart
\* without notes and a chart of duration 0 included, and neither divisor
\* of its two quotients (duration.max(1.0), note_count.max(1.0)) is zero.
C9_LevelBetween1And30 ==
    phase = "level_done" =>
        \A chart \in {ChartWith(input.note_count, input.hold_notes,
                                input.dur, input.bpm)} :
            /\ output \in 1..30
            /\ RMax(duration(chart), R(1)) # R(0)
            /\ RMax(R(Len(chart.notes)), R(1)) # R(0)

\* C9 witness: a chart without notes (its duration is 0) got level 1
C9_Witness ==
    /\ phase = "level_done"
    /\ input.note_count = 0
    /\ output = 1

-----------------------------------------------------------------------------
(* The walk over the note entries of a document *)

\* Note entries of a parsed document
MaxNoteEntries == 2

\* sound, vol and offset of an entry: none, the audio reference of the
\* parser's test, a key sound with an offset
SoundParts ==
    {<<None, None, None>>, <<Some("test.ogg"), Some(100), Some(0)>>,
     <<Some("hit.wav"), None, Some(35)>>}

\* MalodyNote as it stands in the file: `column` may be missing
NoteEntries ==
    {[beat |-> beat, column |-> column, sound |-> sp[1], vol |-> sp[2],
      offset |-> sp[3], note_type |-> note_type, end |-> end] :
         beat \in {<<0, 0, 1>>, <<4, 0, 1>>},
         column \in {None, Some(0), Some(1)},
         sp \in SoundParts,
         note_type \in {None, Some(1)},
         end \in {None, Some(<<2, 0, 1>>)}}

NotesInit ==
    /\ MgrInit
    /\ input \in
           {[meta |-> MetaSky, time |-> <<TempoAt(<<0, 0, 1>>, 120)>>,
             effect |-> <<>>, note |-> note] :
                note \in SeqsUpTo(NoteEntries, MaxNoteEntries)}
    /\ output = <<>>
    /\ phase = "notes"

NotesRun ==
    /\ phase = "notes"
    /\ output' = parse_from_str(Json(input))
    /\ phase' = "notes_done"
    /\ UNCHANGED <<input, mgrVars>>

SpecNotes == NotesInit /\ [][NotesRun]_vars

\* The document has the shape of the one in the parser's test: the first
\* note entry has a sound, type 1 and no column, the others have a column
\* and no sound
TestShaped(doc) ==
    /\ Len(doc.note) >= 2
    /\ IsSome(doc.note[1].sound)
    /\ doc.note[1].column = None
    /\ doc.note[1].note_type = Some(1)
    /\ \A i \in 2..Len(doc.note) :
           IsSome(doc.note[i].column) /\ doc.note[i].sound = None

\* C12: parsing a document whose first note entry carries a sound, in the
\* shape of the parser's test (that entry has no column and has type 1),
\* succeeds, gives metadata.audio that sound and leaves the entry out of the
\* notes, which are one fewer than the note entries.
C12_FirstSoundEntryIsAudioReference ==
    (phase = "notes_done" /\ TestShaped(input)) =>
        /\ output.ok
        /\ output.val.metadata.audio = input.note[1].sound
        /\ Len(output.val.notes) = Len(input.note) - 1

\* C19: in every chart the parser returns, a note has an end_time only if
\* it is a Hold, and an end_time that is present is not before the note's
\* start_time.
C19_EndTimeOnHoldsNotBeforeStart ==
    (phase = "notes_done" /\ output.ok) =>
        \A i \in 1..Len(output.val.notes) :
            IsSome(output.val.notes[i].end_time) =>
                /\ output.val.notes[i].note_type = Hold
                /\ RLe(output.val.notes[i].start_time,
                       Unwrap(output.val.notes[i].end_time))

\* The entry at file position 0 is Tap-typed, on column 0 and has a sound
FirstIsAudioReference(doc) ==
    /\ doc.note # <<>>
    /\ IsSome(doc.note[1].sound)
    /\ doc.note[1].note_type \notin {Some(1), Some(2), Some(3)}
    /\ doc.note[1].column = Some(0)

\* The file ordinals (from 0) of the entries that become notes
KeptOrdinals(doc) ==
    {i \in 0..(Len(doc.note) - 1) : ~(i = 0 /\ FirstIsAudioReference(doc))}

-----------------------------------------------------------------------------
(* load_chart_with_difficulty on libraries of parsed documents *)

\* load_chart_with_difficulty: get_chart_by_id, the first difficulty of the
\* given name, then parse_from_file on its file_path. Both lookups that
\* fail give CoreError::Parse with a message of their own.
load_chart_with_difficulty(charts, files, chart_id, difficulty_name) ==
    IF chart_id \notin DOMAIN charts THEN Err("Parse")
    ELSE IF \A i \in 1..Len(charts[chart_id].difficulties) :
                charts[chart_id].difficulties[i].name # difficulty_name
    THEN Err("Parse")
    ELSE Only({parse_from_file(files, charts[chart_id].difficulties[i].file_path) :
                 i \in {CHOOSE j \in 1..Len(charts[chart_id].difficulties) :
                            /\ charts[chart_id].difficulties[j].name
                                   = difficulty_name
                            /\ \A k \in 1..(j - 1) :
                                   charts[chart_id].difficulties[k].name
                                       # difficulty_name}})

\* What has become of the chart file of an imported document
FileFates == {"valid", "malformed", "missing"}

\* The chart files of the library LibraryFrom(docs, 1, EmptyMap)
LibraryFiles(docs, fate) ==
    [p \in {Append(charts_dir, <<"f", i>>) :
                i \in {j \in 1..Len(docs) : fate[j] # "missing"}} |->
        Only({IF fate[i] = "valid" THEN Json(docs[i]) ELSE Garbage :
                i \in {j \in 1..Len(docs) : Append(charts_dir, <<"f", j>>) = p}})]

LoadIds == {IdSky, IdSun, Sha256Hex8(IdString(MetaLow))}
LoadNames == {<<"E", "z">>, <<"H", "d">>, <<"N", "o">>}

LoadInit ==
    /\ MgrInit
    /\ input \in
           {[charts |-> LibraryFrom(docs, 1, EmptyMap),
             files |-> LibraryFiles(docs, fate),
             chart_id |-> chart_id, difficulty_name |-> difficulty_name] :
                docs \in SeqsUpTo(LibraryDocs, MaxLibrary),
                fate \in [1..MaxLibrary -> FileFates],
                chart_id \in LoadIds, difficulty_name \in LoadNames}
    /\ output = <<>>
    /\ phase = "load"

LoadRun ==
    /\ phase = "load"
    /\ output' = load_chart_with_difficulty(input.charts, input.files,
                                            input.chart_id,
                                            input.difficulty_name)
    /\ phase' = "load_done"
    /\ UNCHANGED <<input, mgrVars>>

SpecLoad == LoadInit /\ [][LoadRun]_vars

\* The index has no entry of that identity, or the entry lists no
\* difficulty of that name
NotListed(charts, chart_id, difficulty_name) ==
    \/ chart_id \notin DOMAIN charts
    \/ \A i \in 1..Len(charts[chart_id].difficulties) :
           charts[chart_id].difficulties[i].name # difficulty_name

\* C14: load_chart_with_difficulty with an identity that is not in the
\* index, or a difficulty name the entry does not list, returns an error
\* whose kind is not the Parse kind that a malformed chart file gives.
C14_NotFoundIsNotParse ==
    (phase = "load_done"
        /\ NotListed(input.charts, input.chart_id, input.difficulty_name)) =>
        /\ ~output.ok
        /\ output.err # parse_from_str(Garbage).err

-----------------------------------------------------------------------------
(* ChartManager::new on the states the data directory can be in *)

\* ChartManager::new with an index file that cannot be decoded taken for a
\* missing one
ChartManager_new_or_empty(env) ==
    [result |->
         IF ~env.project_dirs THEN Err("System")
         ELSE IF ~env.create_dir_ok THEN Err("Io")
         ELSE IF ~env.index_file.exists THEN Ok(EmptyMap)
         ELSE IF env.index_file.kind = "not_utf8" THEN Err("Io")
         ELSE IF env.index_file.kind # "json" THEN Ok(EmptyMap)
         ELSE Ok(env.index_file.charts),
     index_file |-> env.index_file]

\* ChartManager::new: the result (the chart map of the manager's index, or
\* the error) and the index file it leaves. It creates the charts directory
\* and writes nothing else.
ChartManager_new(env) ==
    [result |->
         IF ~env.project_dirs THEN Err("System")
         ELSE IF ~env.create_dir_ok THEN Err("Io")
         ELSE IF ~env.index_file.exists THEN Ok(EmptyMap)
         ELSE IF env.index_file.kind = "not_utf8" THEN Err("Io")
         ELSE IF env.index_file.kind # "json" THEN Err("SerdeJson")
         ELSE Ok(env.index_file.charts),
     index_file |-> env.index_file]

\* Contents of an index file that is no ChartIndex in JSON: bytes that are
\* not UTF-8, text that is not JSON, a document cut short, JSON of another
\* schema
UndecodableKinds == {"not_utf8", "garbage", "truncated", "wrong_schema"}

IndexFiles ==
    {[exists |-> FALSE, kind |-> "none", charts |-> EmptyMap]}
        \cup {[exists |-> TRUE, kind |-> k, charts |-> EmptyMap] :
                k \in UndecodableKinds}
        \cup {[exists |-> TRUE, kind |-> "json",
               charts |-> LibraryFrom(docs, 1, EmptyMap)] :
                docs \in SeqsUpTo(LibraryDocs, MaxLibrary)}

NewInit ==
    /\ MgrInit
    /\ input \in [project_dirs : BOOLEAN, create_dir_ok : BOOLEAN,
                  index_file : IndexFiles]
    /\ output = <<>>
    /\ phase = "new"

NewRun ==
    /\ phase = "new"
    /\ output' = ChartManager_new(input)
    /\ phase' = "new_done"
    /\ UNCHANGED <<input, mgrVars>>

SpecNew == NewInit /\ [][NewRun]_vars

\* C15: when the index file exists and cannot be decoded, ChartManager::new
\* returns an error and no manager (so no empty index in place of the
\* file's), and the index file is left as it was.
C15_UndecodableIndexIsAnError ==
    (phase = "new_done" /\ input.index_file.exists
        /\ input.index_file.kind \in UndecodableKinds) =>
        /\ ~output.result.ok
        /\ output.index_file = input.index_file

\* C15 witness: the data directory was there, the index file was cut short,
\* and new returned the decoding error
C15_Witness ==
    /\ phase = "new_done"
    /\ input.project_dirs
    /\ input.create_dir_ok
    /\ input.index_file.exists
    /\ input.index_file.kind = "truncated"
    /\ output.result = Err("SerdeJson")
    /\ output.index_file = input.index_file

-----------------------------------------------------------------------------
(* process_chart_file on an index that carries play statistics *)

\* play_count, last_played and rating as an index loaded from the index
\* file may carry them
PlayCounts == {0, 3}
LastPlayed == {None, Some(2)}
StoredRatings == {None, Some(R(4))}

\* The chart map with the given statistics in every entry
WithStats(charts, play_count, last_played, rating) ==
    [k \in DOMAIN charts |->
        [charts[k] EXCEPT !.play_count = play_count,
                          !.last_played = last_played,
                          !.rating = rating]]

\* The file and the time of the import under test
MergePath == Append(charts_dir, <<"g">>)
MergeTime == 9

MergeInit ==
    /\ MgrInit
    /\ input \in
           {[charts |-> WithStats(LibraryFrom(docs, 1, EmptyMap),
                                  play_count, last_played, rating),
             doc |-> doc] :
                docs \in SeqsUpTo(LibraryDocs, MaxLibrary),
                play_count \in PlayCounts, last_played \in LastPlayed,
                rating \in StoredRatings, doc \in LibraryDocs}
    /\ output = <<>>
    /\ phase = "merge"

MergeRun ==
    /\ phase = "merge"
    /\ \E chart \in {parse_from_str(Json(input.doc)).val} :
           output' = [id |-> generate_chart_id(chart),
                      r |-> process_chart(input.charts, chart, MergePath,
                                          ArchB, MergeTime)]
    /\ phase' = "merge_done"
    /\ UNCHANGED <<input, mgrVars>>

SpecMerge == MergeInit /\ [][MergeRun]_vars

\* C16: when an import merges a chart into an existing ChartInfo of the same
\* identity, the entry's play_count becomes 0 and its last_played empty,
\* whatever they were, and its rating, tags, import_date and source_file
\* stay as they were.
C16_MergeResetsPlaysKeepsTheRest ==
    (phase = "merge_done" /\ output.id \in DOMAIN input.charts) =>
        /\ output.r.charts[output.id].play_count = 0
        /\ output.r.charts[output.id].last_played = None
        /\ output.r.charts[output.id].rating = input.charts[output.id].rating
        /\ output.r.charts[output.id].tags = input.charts[output.id].tags
        /\ output.r.charts[output.id].import_date
               = input.charts[output.id].import_date
        /\ output.r.charts[output.id].source_file
               = input.charts[output.id].source_file

\* C16 witness: an entry played 3 times, last at time 2, rated 4 and taken
\* from another bundle at another time, after a merge: no plays, the rating
\* and the first bundle and time kept, two difficulties
C16_Witness ==
    /\ phase = "merge_done"
    /\ output.id \in DOMAIN input.charts
    /\ input.charts[output.id].play_count = 3
    /\ input.charts[output.id].last_played = Some(2)
    /\ input.charts[output.id].rating = Some(R(4))
    /\ input.charts[output.id].source_file # ArchB
    /\ input.charts[output.id].import_date # MergeTime
    /\ Len(output.r.charts[output.id].difficulties) = 2
    /\ output.r.charts[output.id].play_count = 0
    /\ output.r.charts[output.id].last_played = None
    /\ output.r.charts[output.id].rating = Some(R(4))
    /\ output.r.charts[output.id].source_file
           = input.charts[output.id].source_file

-----------------------------------------------------------------------------
(* The timelines of two documents, one the beginning of the other *)

\* Entries of the effect list of a parsed document
MaxEffectEntries == 2

\* type 1: a tempo change; 2: a time signature (3/4 as 3 + 4 * 256);
\* 3: a scroll speed; 5: any other effect
EffectEntries ==
    {[beat |-> beat, effect_type |-> tv[1], value |-> tv[2]] :
        beat \in {<<2, 0, 1>>, <<6, 0, 1>>},
        tv \in {<<1, R(60)>>, <<2, R(1027)>>, <<3, R(2)>>, <<5, R(1)>>}}

\* The first c entries of the document in the order the parser takes them
\* in: the time list, then the effect list
FirstOf(s, n) == [i \in 1..(IF n < Len(s) THEN n ELSE Len(s)) |-> s[i]]

CutAfter(doc, c) ==
    [doc EXCEPT !.time = FirstOf(@, c),
                !.effect = FirstOf(@, c - Len(doc.time))]

TimelineInit ==
    /\ MgrInit
    /\ input \in
           {[a |-> CutAfter(doc, c), b |-> doc] :
                doc \in {[meta |-> MetaSky, time |-> time, effect |-> effect,
                          note |-> <<RawNote(<<12, 0, 1>>, Some(1), None,
                                             None, None),
                                     RawNote(b2, Some(2), None, Some(1),
                                             Some(<<12, 0, 1>>))>>] :
                            time \in SeqsUpTo(TimePoints, MaxTimeEntries),
                            effect \in SeqsUpTo(EffectEntries, MaxEffectEntries),
                            b2 \in NoteBeats},
                c \in 0..(MaxTimeEntries + MaxEffectEntries)}
    /\ output = <<>>
    /\ phase = "timeline"

TimelineRun ==
    /\ phase = "timeline"
    /\ output' = [a |-> parse_from_str(Json(input.a)),
                  b |-> parse_from_str(Json(input.b))]
    /\ phase' = "timeline_done"
    /\ UNCHANGED <<input, mgrVars>>

SpecTimeline == TimelineInit /\ [][TimelineRun]_vars

\* The list is in ascending order of the field key
SortedBy(s, key) ==
    \A i \in 1..Len(s) : \A j \in i..Len(s) : RLe(s[i][key], s[j][key])

AllSorted(chart) ==
    /\ SortedBy(chart.bpm_changes, "time")
    /\ SortedBy(chart.time_signatures, "time")
    /\ SortedBy(chart.speed_changes, "time")
    /\ SortedBy(chart.effects, "time")
    /\ SortedBy(chart.notes, "start_time")

\* C17: in every chart the parser returns, bpm_changes, time_signatures,
\* speed_changes and effects are sorted ascending by time and notes
\* ascending by start_time, whatever the order of the entries in the
\* document.
C17_ListsSortedByTime ==
    phase = "timeline_done" =>
        /\ output.a.ok => AllSorted(output.a.val)
        /\ output.b.ok => AllSorted(output.b.val)

\* C17 witness: every list of the document came in descending order of beat
\* and of time, and every list of the chart has its entries the other way
\* round
C17_Witness ==
    /\ phase = "timeline_done"
    /\ output.b.ok
    /\ input.b.time = <<TempoAt(<<8, 0, 1>>, 240), TempoAt(<<0, 0, 1>>, 120)>>
    /\ input.b.note[2].beat = <<6, 0, 1>>
    /\ output.b.val.bpm_changes[1].beat = <<0, 0, 1>>
    /\ RLt(output.b.val.bpm_changes[1].time, output.b.val.bpm_changes[2].time)
    /\ output.b.val.notes[1].beat = <<6, 0, 1>>
    /\ RLt(output.b.val.notes[1].start_time, output.b.val.notes[2].start_time)
    /\ \E key \in {"time_signatures", "speed_changes", "effects"} :
           /\ Len(output.b.val[key]) = 2
           /\ output.b.val[key][1].time # output.b.val[key][2].time
           /\ input.b.effect[1].beat = <<6, 0, 1>>

\* Every entry of the list s, with its time, is in the list t as often
Within(s, t) == \A i \in 1..Len(s) : CountIn(s, s[i]) <= CountIn(t, s[i])

\* C18: a tempo entry or effect entry gets its time from the entries taken
\* in before it only (the time list in file order, then the effect list in
\* file order): when one document is the beginning of another in this
\* order, each of its entries has the same time in both charts.
C18_TimesFromEarlierEntriesOnly ==
    (phase = "timeline_done" /\ output.a.ok /\ output.b.ok) =>
        /\ Within(output.a.val.bpm_changes, output.b.val.bpm_changes)
        /\ Within(output.a.val.time_signatures, output.b.val.time_signatures)
        /\ Within(output.a.val.speed_changes, output.b.val.speed_changes)
        /\ Within(output.a.val.effects, output.b.val.effects)

\* C18 witness: the shorter document ends after the tempo entry at beat 8;
\* the longer one goes on with a tempo entry at beat 0 and a type-1 effect
\* at beat 2, both before beat 8, and the entry at beat 8 is at 2.0 s in both
C18_Witness ==
    /\ phase = "timeline_done"
    /\ output.a.ok /\ output.b.ok
    /\ input.a.time = <<TempoAt(<<8, 0, 1>>, 240)>>
    /\ input.b.time = <<TempoAt(<<8, 0, 1>>, 240), TempoAt(<<0, 0, 1>>, 120)>>
    /\ Len(input.b.effect) >= 1
    /\ input.b.effect[1].effect_type = 1
    /\ input.b.effect[1].beat = <<2, 0, 1>>
    /\ output.a.val.bpm_changes
           = <<[time |-> R(2), bpm |-> R(240), beat |-> <<8, 0, 1>>]>>
    /\ \E i \in 1..Len(output.b.val.bpm_changes) :
           output.b.val.bpm_changes[i]
               = [time |-> R(2), bpm |-> R(240), beat |-> <<8, 0, 1>>]

\* The entries of the effect list whose type code is in types
EffectsOfType(doc, types) ==
    {i \in 1..Len(doc.effect) : doc.effect[i].effect_type \in types}

\* The chart holds each effect entry of the document in the one list its
\* type code selects
Dispatched(doc, chart) ==
    /\ Len(chart.bpm_changes)
           = Len(doc.time) + Cardinality(EffectsOfType(doc, {1}))
    /\ Len(chart.time_signatures) = Cardinality(EffectsOfType(doc, {2}))
    /\ Len(chart.speed_changes) = Cardinality(EffectsOfType(doc, {3}))
    /\ Len(chart.effects)
           = Len(doc.effect) - Cardinality(EffectsOfType(doc, {1, 2, 3}))
    /\ \A i \in EffectsOfType(doc, {1}) :
           \E k \in 1..Len(chart.bpm_changes) :
               /\ chart.bpm_changes[k].beat = doc.effect[i].beat
               /\ chart.bpm_changes[k].bpm = doc.effect[i].value
    /\ \A i \in EffectsOfType(doc, {2}) :
           \E k \in 1..Len(chart.time_signatures) :
               /\ chart.time_signatures[k].beat = doc.effect[i].beat
               /\ chart.time_signatures[k].numerator
                      = (doc.effect[i].value.n \div doc.effect[i].value.d) % 256
               /\ chart.time_signatures[k].denominator
                      = ((doc.effect[i].value.n \div doc.effect[i].value.d)
                             \div 256) % 256
    /\ \A i \in EffectsOfType(doc, {3}) :
           \E k \in 1..Len(chart.speed_changes) :
               /\ chart.speed_changes[k].beat = doc.effect[i].beat
               /\ chart.speed_changes[k].speed = doc.effect[i].value
    /\ \A i \in 1..Len(doc.effect) :
           doc.effect[i].effect_type \notin {1, 2, 3} =>
               \E k \in 1..Len(chart.effects) :
                   /\ chart.effects[k].event_type
                          = <<"malody_effect_", doc.effect[i].effect_type>>
                   /\ chart.effects[k].data = doc.effect[i].value

\* C21: every effect entry lands in exactly one list chosen by its type
\* code: type 1 adds a BPMChange, type 2 a TimeSignature whose numerator is
\* the low byte and whose denominator the next byte of the value, type 3 a
\* SpeedChange, any other type a ChartEvent; so |bpm_changes| = |time
\* entries| + |type-1 effects| and the other three lists together hold the
\* effects of the other types.
C21_EffectsDispatchedByType ==
    phase = "timeline_done" =>
        /\ output.a.ok => Dispatched(input.a, output.a.val)
        /\ output.b.ok => Dispatched(input.b, output.b.val)

\* C21 witness: a document of one time entry, a type-1 effect and a type-2
\* effect of value 1027 gave two tempo changes and the time signature 3/4
C21_Witness ==
    /\ phase = "timeline_done"
    /\ output.b.ok
    /\ Len(input.b.time) = 1
    /\ Len(input.b.effect) = 2
    /\ input.b.effect[1].effect_type = 1
    /\ input.b.effect[2].effect_type = 2
    /\ Len(output.b.val.bpm_changes) = 2
    /\ Len(output.b.val.time_signatures) = 1
    /\ output.b.val.time_signatures[1].numerator = 3
    /\ output.b.val.time_signatures[1].denominator = 4
    /\ output.b.val.speed_changes = <<>>
    /\ output.b.val.effects = <<>>

-----------------------------------------------------------------------------
(* The operations of ChartManager: files, play statistics, the lock *)

\* The directory a bundle is extracted to: charts_dir.join(file_stem)
ExtractDirOf(mcz_path) ==
    Append(charts_dir, file_stem(mcz_path[Len(mcz_path)]))

\* C22: delete_chart on an identity that is in the index removes exactly
\* that entry from the index, removes from disk the directory the chart's
\* bundle was extracted to, and removes nothing outside the managed charts
\* directory.
C22_DeleteRemovesEntryAndExtractedDir ==
    [][\A t \in Threads : \A chart_id \in ChartIds :
           (DeleteChart(t, chart_id) /\ chart_id \in DOMAIN index /\ ~poisoned)
               => /\ index' = MapRemove(index, chart_id)
                  /\ \A p \in DOMAIN fs' :
                         ~IsPrefix(ExtractDirOf(index[chart_id].source_file), p)
                  /\ \A p \in DOMAIN fs \ DOMAIN fs' :
                         IsPrefix(charts_dir, p)]_vars

\* C23: record_play on an identity that is in the index adds exactly 1 to
\* that entry's play_count and sets its last_played, and changes nothing
\* else: the identities, every other entry, and the entry's difficulties,
\* rating, tags and other fields stay.
C23_RecordPlayChangesPlaysOnly ==
    [][\A t \in Threads : \A chart_id \in ChartIds :
           (RecordPlay(t, chart_id) /\ chart_id \in DOMAIN index /\ ~poisoned)
               => /\ DOMAIN index' = DOMAIN index
                  /\ index'[chart_id].play_count
                         = index[chart_id].play_count + 1
                  /\ IsSome(index'[chart_id].last_played)
                  /\ index'[chart_id]
                         = [index[chart_id] EXCEPT
                               !.play_count = index'[chart_id].play_count,
                               !.last_played = index'[chart_id].last_played]
                  /\ \A k \in DOMAIN index \ {chart_id} :
                         index'[k] = index[k]]_vars

\* C23 witness: of two entries one has been played once and the other not
C23_Witness ==
    /\ Cardinality(DOMAIN index) = 2
    /\ \E k \in DOMAIN index :
           /\ index[k].play_count = 1
           /\ IsSome(index[k].last_played)
           /\ Len(index[k].difficulties) = 2
           /\ \A j \in DOMAIN index \ {k} :
                  index[j].play_count = 0 /\ index[j].last_played = None

\* C24: a call of delete_chart, record_play or set_rating never waits for a
\* lock that the calling thread itself holds (so a call made while no other
\* thread holds the lock returns).
C24_NeverWaitsForOwnLock ==
    \A t \in Threads : ~(pc[t] = "update_index" /\ lock = t)

\* C25: after any sequence of import_mcz_file calls, every file_path of a
\* ChartDifficulty in the index names a file that exists in the staging
\* tree.
C25_FilePathsExist ==
    \A k \in DOMAIN index : \A i \in 1..Len(index[k].difficulties) :
        index[k].difficulties[i].file_path \in DOMAIN fs

\* C28: within one ChartInfo no two difficulties share a name, so
\* load_chart_with_difficulty finds each difficulty by its own name.
C28_DifficultyNamesDiffer ==
    \A k \in DOMAIN index :
        \A i \in 1..Len(index[k].difficulties) :
            \A j \in 1..Len(index[k].difficulties) :
                index[k].difficulties[i].name = index[k].difficulties[j].name
                    => i = j

\* The number of difficulties in the index
RECURSIVE TotalDifficulties(_, _)
TotalDifficulties(charts, keys) ==
    IF keys = {} THEN 0
    ELSE Only({Len(charts[k].difficulties)
                   + TotalDifficulties(charts, keys \ {k}) :
                 k \in {CHOOSE x \in keys : TRUE}})

\* The number of files the imports of the threads up to t have processed
RECURSIVE TotalImported(_)
TotalImported(t) ==
    IF t = 0 THEN 0 ELSE Len(imported[t]) + TotalImported(t - 1)

\* Every thread has made at most one call, an import, and no two threads
\* import bundles of the same base filename
ImportsSideBySide ==
    /\ \A t \in Threads :
           call[t] = NoCall \/ call[t].op = "import_mcz_file"
    /\ Cardinality({t \in Threads : call[t] # NoCall}) = clock
    /\ \A t \in Threads : \A u \in Threads \ {t} :
           (call[t] # NoCall /\ call[u] # NoCall)
               => ExtractDirOf(call[t].arg) # ExtractDirOf(call[u].arg)

\* C30: when several threads import bundles of different base filenames at
\* the same time, the index holds at most one entry per identity and as many
\* difficulties as files were parsed and processed: no insert or append of
\* one thread is lost to another.
C30_ConcurrentImportsLoseNothing ==
    ImportsSideBySide =>
        /\ NoDuplicateIdentity(index)
        /\ TotalDifficulties(index, DOMAIN index) = TotalImported(NumThreads)

\* C30 witness: two imports are both in the middle of their walk, each has
\* processed one file, and the two files are the two difficulties of one
\* entry
C30_Witness ==
    /\ ImportsSideBySide
    /\ \A t \in Threads :
           pc[t] = "walk" /\ Len(imported[t]) = 1 /\ todo[t] # {}
    /\ \E k \in DOMAIN index : Len(index[k].difficulties) = 2
    /\ Cardinality(DOMAIN index) = 1

-----------------------------------------------------------------------------
(* delete_chart when a bundle lies in the managed charts directory *)

\* The second bundle, kept in the charts directory itself
ArchIn == Append(charts_dir, <<"b", ".", "m", "c", "z">>)

ManagedArchives == {ArchA, ArchIn}

ManagedFiles == (ArchA :> InitialFiles[ArchA]) @@ (ArchIn :> InitialFiles[ArchB])

ManagedInit ==
    /\ index = EmptyMap
    /\ disk = NoFile
    /\ fs = ManagedFiles
    /\ lock = NoThread
    /\ poisoned = FALSE
    /\ pc = [t \in Threads |-> "idle"]
    /\ call = [t \in Threads |-> NoCall]
    /\ ret = [t \in Threads |-> NoRet]
    /\ todo = [t \in Threads |-> {}]
    /\ imported = [t \in Threads |-> <<>>]
    /\ clock = 0
    /\ input = <<>>
    /\ output = <<>>
    /\ phase = "unused"

ManagedNext ==
    \E t \in Threads :
        \/ \E mcz_path \in ManagedArchives : ImportStart(t, mcz_path)
        \/ ProcessEntry(t)
        \/ UpdateIndex(t)
        \/ ReentrantWritePanic(t)
        \/ \E chart_id \in ChartIds : DeleteChart(t, chart_id)

SpecManaged == ManagedInit /\ [][ManagedNext]_vars

\* C26: delete_chart(id) removes no extracted file that a ChartDifficulty
\* of another identity, still in the index, refers to, and no file that lies
\* in the managed charts directory itself (it never removes that directory).
C26_DeleteKeepsFilesOfOtherCharts ==
    [][\A t \in Threads : \A chart_id \in ChartIds :
           (DeleteChart(t, chart_id) /\ chart_id \in DOMAIN index /\ ~poisoned)
               => /\ \A k \in DOMAIN index' :
                      \A i \in 1..Len(index'[k].difficulties) :
                          index'[k].difficulties[i].file_path \in DOMAIN fs
                              => index'[k].difficulties[i].file_path
                                     \in DOMAIN fs'
                  /\ \A p \in DOMAIN fs :
                         (IsPrefix(charts_dir, p)
                              /\ Len(p) = Len(charts_dir) + 1)
                             => p \in DOMAIN fs']_vars

-----------------------------------------------------------------------------
(* extract_mcz on bundles with entry names of every kind *)

\* Entries of a bundle
MaxZipEntries == 2

\* A file outside the charts directory that is there before the extraction
VictimPath == <<<<"t", "m", "p">>, <<"v", ".", "m", "c">>>>

\* Entry names: plain, in a subdirectory, leaving a subdirectory it has
\* entered, leaving the destination by `..`, absolute
ZipEntryNames ==
    {<<<<"e", ".", "m", "c">>>>,
     <<<<"s">>, <<"h", ".", "m", "c">>>>,
     <<<<"s">>, ParentDir, <<"k", ".", "m", "c">>>>,
     <<ParentDir, <<"x", ".", "m", "c">>>>,
     <<ParentDir, ParentDir, ParentDir, <<"t", "m", "p">>, <<"v", ".", "m", "c">>>>,
     <<RootDir, <<"t", "m", "p">>, <<"v", ".", "m", "c">>>>}

ZipEntries ==
    {Entry(name, content) :
        name \in ZipEntryNames, content \in {Garbage, Json(DocEasy)}}
        \cup {DirEntry(<<<<"s">>>>)}

ExtractInit ==
    /\ MgrInit
    /\ input \in
           {[files |-> (ArchA :> [kind |-> "zip", entries |-> entries])
                           @@ (VictimPath :> Json(DocSun)),
             mcz_path |-> ArchA,
             extract_dir |-> ExtractDirOf(ArchA)] :
                entries \in SeqsUpTo(ZipEntries, MaxZipEntries)}
    /\ output = <<>>
    /\ phase = "extract"

ExtractRun ==
    /\ phase = "extract"
    /\ output' = extract_mcz(input.files, input.mcz_path, input.extract_dir)
    /\ phase' = "extract_done"
    /\ UNCHANGED <<input, mgrVars>>

SpecExtract == ExtractInit /\ [][ExtractRun]_vars

\* C27: for every bundle and every entry name in it, names with `..`
\* components and absolute names included, extract_mcz creates or changes
\* files inside the destination directory of that bundle only.
C27_ExtractStaysInDestination ==
    phase = "extract_done" =>
        \A p \in DOMAIN output.files :
            (p \notin DOMAIN input.files \/ output.files[p] # input.files[p])
                => IsPrefix(input.extract_dir, p)

-----------------------------------------------------------------------------
(* generate_chart_id on any two identities *)

\* The (title, artist, creator, version) tuples
IdentityTuples == [IdentityFields -> FieldValues]

TupleInit ==
    /\ MgrInit
    /\ input \in
           {[a |-> ChartOf(x.title, x.artist, x.creator, x.version, FALSE),
             b |-> ChartOf(y.title, y.artist, y.creator, y.version, TRUE)] :
                x \in IdentityTuples, y \in IdentityTuples}
    /\ output = <<>>
    /\ phase = "tuple"

TupleRun ==
    /\ phase = "tuple"
    /\ output' = <<generate_chart_id(input.a), generate_chart_id(input.b)>>
    /\ phase' = "tuple_done"
    /\ UNCHANGED <<input, mgrVars>>

SpecTuple == TupleInit /\ [][TupleRun]_vars

\* C29: two charts get one identity (and are merged into one ChartInfo)
\* only if their title, artist, creator and version are pairwise equal: the
\* string that is hashed differs for any two different tuples, fields that
\* contain the underscore separator included.
C29_DifferentTuplesDifferentIds ==
    (phase = "tuple_done" /\ FieldsThatDiffer(input.a, input.b) # {}) =>
        /\ IdString(input.a.metadata) # IdString(input.b.metadata)
        /\ output[1] # output[2]

=============================================================================
